---- MODULE Spec2Model ----
(***************************************************************************)
(* A model of the xihr event-driven backtesting engine: the event queue,   *)
(* the engine loop, the scheduler, the clocks, the betting repositories    *)
(* (simulation and live) and the portfolio.                                *)
(*                                                                         *)
(* Time is counted in whole slots (one slot stands for one minute, the     *)
(* granularity of cron); a day is scaled down to Day slots.  Money is      *)
(* counted in whole units, odds are fractions num/den chosen so that every *)
(* payout is a whole number.                                               *)
(***************************************************************************)
EXTENDS Integers, Sequences, FiniteSets, TLC

(* ------------------------------ bounds -------------------------------- *)

\* Latest slot a race may be scheduled at (races start at slot 1 or later).
MaxDate == 2
\* Latest reading of the wall clock (real clock variant).
MaxWall == 1
\* Number of place_bet and schedule calls made in one run.
MaxCalls == 2
\* Number of front-counter insertions (ticks and confirmations) in one run:
\* under the real clock the engine ticks without waiting for the wall clock.
MaxFront == 6
\* Number of insertions in the stand-alone queue specification.
MaxInserts == 4
\* Number of calls in the stand-alone repository specification.
MaxRepoCalls == 6

(* ----------------------- program constants ---------------------------- *)

\* timedelta(days=1), scaled to slots.
Day == 2
\* Engine(tick_seconds=...): the tick interval, one slot.
TickInterval == 1
\* None for an optional datetime.
NoTime == -1
\* itertools.count(1): the first bet id.
FirstBetId == 1

(* ------------------------------ inputs -------------------------------- *)

\* The race ids the data repository may hold, in repository order.
RaceOrder == <<"R1", "R2", "R3">>
RaceIds == {RaceOrder[i] : i \in 1..Len(RaceOrder)}
\* The catalogue of the betting runs: the first two.
Races == {RaceOrder[i] : i \in 1..2}
Stakes == {0, 2, 4}
Combinations == {<<"H1">>}
Bankrolls == {3}
PayoffDelays == {0, 1}
Offsets == {-1, 1}
TimesOfDay == {0}
CronMinutes == {0}
\* placed_at arguments a strategy passes to place_bet: none, or an explicit slot.
PlacedAts == {NoTime, 2}

\* The payoff catalogue of the data repository: odds is num/den.
PayoffTable ==
    [r \in RaceIds |->
        IF r = "R1"
        THEN << [race_id |-> "R1", bet_type |-> "win", combination |-> <<"H1">>,
                 num |-> 3, den |-> 2] >>
        ELSE << [race_id |-> r, bet_type |-> "WIN", combination |-> <<"H2">>,
                 num |-> 2, den |-> 1] >>]

(* ------------------------------ helpers ------------------------------- *)

Max(a, b) == IF a >= b THEN a ELSE b
Min(a, b) == IF a <= b THEN a ELSE b
SetMax(S) == CHOOSE x \in S : \A y \in S : y <= x
SetMin(S) == CHOOSE x \in S : \A y \in S : x <= y
Range(s) == {s[i] : i \in 1..Len(s)}

RECURSIVE SumStakes(_, _)
SumStakes(f, ids) ==
    IF ids = {} THEN 0
    ELSE LET i == CHOOSE x \in ids : TRUE
         IN  f[i].stake + SumStakes(f, ids \ {i})

(* --------------------------- bet types -------------------------------- *)

\* A variant that keeps the letter case.
LowerKeepsCase(s) == s

\* str.lower() on the labels the model uses.
Lower(s) ==
    CASE s = "WIN" -> "win"
      [] s = "Place" -> "place"
      [] s = "Wide" -> "wide"
      [] s = "Other" -> "other"
      [] OTHER -> s

\* CANONICAL_BET_TYPES; the Japanese labels are written in romaji.
CanonicalBetTypes ==
    [ win |-> {"win", "tansho"},
      place |-> {"place", "fukusho"},
      bracket_quinella |-> {"bracket_quinella", "wakuren"},
      quinella |-> {"quinella", "umaren"},
      exacta |-> {"exacta", "umatan"},
      quinella_place |-> {"quinella_place", "waido", "wide"},
      trifecta_box |-> {"trifecta_box", "sanrenpuku"},
      trifecta_exact |-> {"trifecta_exact", "sanrentan"} ]

OrderSensitive == {"exacta", "trifecta_exact"}

canonical_bet_type(bet_type) ==
    LET normalized == Lower(bet_type)
        hits == {c \in DOMAIN CanonicalBetTypes :
                    normalized \in {Lower(a) : a \in CanonicalBetTypes[c]}}
    IN  IF hits # {} THEN CHOOSE c \in hits : TRUE ELSE normalized

\* A variant that compares the runners as sets whatever the type.
MatchAsSets(bet_combo, result_combo, canonical_type) ==
    Range(bet_combo) = Range(result_combo)

combinations_match(bet_combo, result_combo, canonical_type) ==
    IF canonical_type \in OrderSensitive THEN bet_combo = result_combo
    ELSE IF canonical_type = "win"
         THEN Len(bet_combo) > 0 /\ Len(result_combo) > 0
              /\ bet_combo[1] = result_combo[1]
    ELSE IF canonical_type = "place"
         THEN \A i \in 1..Len(bet_combo) : bet_combo[i] \in Range(result_combo)
    ELSE Range(bet_combo) = Range(result_combo)

RECURSIVE PayoutFrom(_, _, _)
PayoutFrom(position, payoffs, i) ==
    IF i > Len(payoffs) THEN 0
    ELSE IF canonical_bet_type(position.bet_type) = canonical_bet_type(payoffs[i].bet_type)
            /\ combinations_match(position.combination, payoffs[i].combination,
                                  canonical_bet_type(position.bet_type))
         THEN (position.stake * payoffs[i].num) \div payoffs[i].den
         ELSE PayoutFrom(position, payoffs, i + 1)

\* A variant that pays the winnings without the stake.
PayoutNetOfStake(position, payoffs) ==
    Max(PayoutFrom(position, payoffs, 1) - position.stake, 0)

calculate_payout(position, payoffs) == PayoutFrom(position, payoffs, 1)

get_payoffs(race_id) == IF race_id \in RaceIds THEN PayoffTable[race_id] ELSE << >>

(* ------------------------------ events -------------------------------- *)

\* One record shape for the five event variants; `at` is the timestamp that
\* _event_time reads (scheduled_for, available_at, placed_at, settled_at).
\* position is the bet id of the attached BetPosition, 0 for None.
EvBase ==
    [type |-> "", at |-> NoTime, kind |-> "", race_id |-> "", bet_type |-> "",
     combination |-> << >>, stake |-> 0, bet_id |-> 0, accepted |-> FALSE,
     message |-> "", position |-> 0]

TimeEvent(scheduled_for) == [EvBase EXCEPT !.type = "time", !.at = scheduled_for]

DataEvent(kind, race_id, available_at) ==
    [EvBase EXCEPT !.type = "data", !.kind = kind, !.race_id = race_id,
                   !.at = available_at]

BetRequestEvent(race_id, bet_type, combination, stake, placed_at) ==
    [EvBase EXCEPT !.type = "request", !.race_id = race_id, !.bet_type = bet_type,
                   !.combination = combination, !.stake = stake, !.at = placed_at]

BetConfirmationEvent(bet_id, race_id, bet_type, combination, stake, placed_at, accepted, message) ==
    [EvBase EXCEPT !.type = "confirmation", !.bet_id = bet_id, !.race_id = race_id,
                   !.bet_type = bet_type, !.combination = combination,
                   !.stake = stake, !.at = placed_at, !.accepted = accepted,
                   !.message = message]

ResultEvent(race_id, settled_at) ==
    [EvBase EXCEPT !.type = "result", !.race_id = race_id, !.at = settled_at]

(* ----------------------------- portfolio ------------------------------ *)

\* Portfolio.create(bankroll)
PortfolioCreate(bankroll) ==
    [initial_bankroll |-> bankroll, cash |-> bankroll, positions |-> << >>]

BetPosition(bet_id, race_id, bet_type, combination, stake, placed_at) ==
    [bet_id |-> bet_id, race_id |-> race_id, bet_type |-> bet_type,
     combination |-> combination, stake |-> stake, placed_at |-> placed_at,
     status |-> "open", payout |-> 0]

\* A result of a call that may raise: err is "" when the call returned.
PlaceBetDebitless(pf, bet_id, race_id, bet_type, combination, stake, placed_at) ==
    IF stake <= 0 THEN [err |-> "InvalidStake", pf |-> pf, pos |-> 0]
    ELSE IF stake > pf.cash THEN [err |-> "InsufficientCash", pf |-> pf, pos |-> 0]
    ELSE [err |-> "",
          pf |-> [pf EXCEPT !.positions =
                     (bet_id :> BetPosition(bet_id, race_id, bet_type, combination,
                                            stake, placed_at)) @@ pf.positions],
          pos |-> bet_id]

\* A variant without the test of the stake's sign.
PlaceBetAnyStake(pf, bet_id, race_id, bet_type, combination, stake, placed_at) ==
    IF stake > pf.cash THEN [err |-> "InsufficientCash", pf |-> pf, pos |-> 0]
    ELSE [err |-> "",
          pf |-> [pf EXCEPT !.cash = pf.cash - stake,
                            !.positions =
                     (bet_id :> BetPosition(bet_id, race_id, bet_type, combination,
                                            stake, placed_at)) @@ pf.positions],
          pos |-> bet_id]

\* Portfolio.place_bet
PortfolioPlaceBet(pf, bet_id, race_id, bet_type, combination, stake, placed_at) ==
    IF stake <= 0 THEN [err |-> "InvalidStake", pf |-> pf, pos |-> 0]
    ELSE IF stake > pf.cash THEN [err |-> "InsufficientCash", pf |-> pf, pos |-> 0]
    ELSE [err |-> "",
          pf |-> [pf EXCEPT !.cash = pf.cash - stake,
                            !.positions =
                     (bet_id :> BetPosition(bet_id, race_id, bet_type, combination,
                                            stake, placed_at)) @@ pf.positions],
          pos |-> bet_id]

SettleBetDebit(pf, bet_id, payout) ==
    IF bet_id \notin DOMAIN pf.positions THEN [err |-> "UnknownBet", pf |-> pf, pos |-> 0]
    ELSE IF pf.positions[bet_id].status # "open"
         THEN [err |-> "AlreadySettled", pf |-> pf, pos |-> 0]
    ELSE [err |-> "",
          pf |-> [pf EXCEPT !.cash = pf.cash - payout,
                            !.positions[bet_id].status = "settled",
                            !.positions[bet_id].payout = payout],
          pos |-> bet_id]

\* A variant without the test of the position's status.
SettleBetAnyStatus(pf, bet_id, payout) ==
    IF bet_id \notin DOMAIN pf.positions THEN [err |-> "UnknownBet", pf |-> pf, pos |-> 0]
    ELSE [err |-> "",
          pf |-> [pf EXCEPT !.cash = pf.cash + payout,
                            !.positions[bet_id].status = "settled",
                            !.positions[bet_id].payout = payout],
          pos |-> bet_id]

\* A variant that credits the payout but leaves the position open.
SettleBetKeepsOpen(pf, bet_id, payout) ==
    IF bet_id \notin DOMAIN pf.positions THEN [err |-> "UnknownBet", pf |-> pf, pos |-> 0]
    ELSE IF pf.positions[bet_id].status # "open"
         THEN [err |-> "AlreadySettled", pf |-> pf, pos |-> 0]
    ELSE [err |-> "",
          pf |-> [pf EXCEPT !.cash = pf.cash + payout,
                            !.positions[bet_id].payout = payout],
          pos |-> bet_id]

\* Portfolio.settle_bet
PortfolioSettleBet(pf, bet_id, payout) ==
    IF bet_id \notin DOMAIN pf.positions THEN [err |-> "UnknownBet", pf |-> pf, pos |-> 0]
    ELSE IF pf.positions[bet_id].status # "open"
         THEN [err |-> "AlreadySettled", pf |-> pf, pos |-> 0]
    ELSE [err |-> "",
          pf |-> [pf EXCEPT !.cash = pf.cash + payout,
                            !.positions[bet_id].status = "settled",
                            !.positions[bet_id].payout = payout],
          pos |-> bet_id]

open_positions(pf) == {i \in DOMAIN pf.positions : pf.positions[i].status = "open"}
settled_positions(pf) == {i \in DOMAIN pf.positions : pf.positions[i].status = "settled"}

(* ------------------------- betting repository -------------------------- *)

\* BettingRepository.__init__ and the two subclasses' __init__; kind is
\* "sim" (SimulationBettingRepository) or "live" (LiveBettingRepository).
\* pending holds, per race, the bet ids of the positions awaiting settlement.
RepoCreate(kind) ==
    [kind |-> kind, counter |-> FirstBetId, pending_confirmations |-> << >>,
     pending |-> [r \in RaceIds |-> << >>]]

PendingBet(bet_id, race_id, bet_type, combination, stake, placed_at) ==
    [bet_id |-> bet_id, race_id |-> race_id, bet_type |-> bet_type,
     combination |-> combination, stake |-> stake, placed_at |-> placed_at]

\* A variant that reserves against the initial bankroll.
AvailableCashOfBankroll(rp, pf) ==
    pf.initial_bankroll - SumStakes(rp.pending_confirmations, DOMAIN rp.pending_confirmations)

AvailableCashNoReserve(rp, pf) == pf.cash

\* _available_cash (both variants)
AvailableCash(rp, pf) ==
    pf.cash - SumStakes(rp.pending_confirmations, DOMAIN rp.pending_confirmations)

\* A variant that takes a new bet id only for an accepted request.
RepoPlaceBetRejectKeepsId(rp, pf, race_id, horse_ids, stake, bet_type, placed_at) ==
    LET bet_id == rp.counter
        next == [rp EXCEPT !.counter = rp.counter + 1]
    IN  IF stake <= 0
        THEN [rp |-> rp,
              conf |-> BetConfirmationEvent(bet_id, race_id, bet_type, horse_ids, stake,
                                            placed_at, FALSE, "Stake must be positive")]
        ELSE IF stake > AvailableCash(rp, pf)
        THEN [rp |-> rp,
              conf |-> BetConfirmationEvent(bet_id, race_id, bet_type, horse_ids, stake,
                                            placed_at, FALSE, "Insufficient cash to place bet")]
        ELSE [rp |-> [next EXCEPT !.pending_confirmations =
                         (bet_id :> PendingBet(bet_id, race_id, bet_type, horse_ids,
                                               stake, placed_at))
                         @@ rp.pending_confirmations],
              conf |-> BetConfirmationEvent(bet_id, race_id, bet_type, horse_ids, stake,
                                            placed_at, TRUE, "")]

RepoPlaceBetReserveFirst(rp, pf, race_id, horse_ids, stake, bet_type, placed_at) ==
    LET bet_id == rp.counter
        next == [rp EXCEPT !.counter = rp.counter + 1,
                           !.pending_confirmations =
                               (bet_id :> PendingBet(bet_id, race_id, bet_type, horse_ids,
                                                     stake, placed_at))
                               @@ rp.pending_confirmations]
    IN  IF stake <= 0
        THEN [rp |-> next,
              conf |-> BetConfirmationEvent(bet_id, race_id, bet_type, horse_ids, stake,
                                            placed_at, FALSE, "Stake must be positive")]
        ELSE IF stake > AvailableCash(rp, pf)
        THEN [rp |-> next,
              conf |-> BetConfirmationEvent(bet_id, race_id, bet_type, horse_ids, stake,
                                            placed_at, FALSE, "Insufficient cash to place bet")]
        ELSE [rp |-> next,
              conf |-> BetConfirmationEvent(bet_id, race_id, bet_type, horse_ids, stake,
                                            placed_at, TRUE, "")]

\* place_bet (both variants): the repository after the call and the returned event.
RepoPlaceBet(rp, pf, race_id, horse_ids, stake, bet_type, placed_at) ==
    LET bet_id == rp.counter
        next == [rp EXCEPT !.counter = rp.counter + 1]
    IN  IF stake <= 0
        THEN [rp |-> next,
              conf |-> BetConfirmationEvent(bet_id, race_id, bet_type, horse_ids, stake,
                                            placed_at, FALSE, "Stake must be positive")]
        ELSE IF stake > AvailableCash(rp, pf)
        THEN [rp |-> next,
              conf |-> BetConfirmationEvent(bet_id, race_id, bet_type, horse_ids, stake,
                                            placed_at, FALSE, "Insufficient cash to place bet")]
        ELSE [rp |-> [next EXCEPT !.pending_confirmations =
                         (bet_id :> PendingBet(bet_id, race_id, bet_type, horse_ids,
                                               stake, placed_at))
                         @@ rp.pending_confirmations],
              conf |-> BetConfirmationEvent(bet_id, race_id, bet_type, horse_ids, stake,
                                            placed_at, TRUE, "")]

Without(f, k) == [x \in (DOMAIN f) \ {k} |-> f[x]]

\* A variant that leaves the pending entry in place.
ConfirmBetKeepsPending(rp, pf, event) ==
    IF event.bet_id \notin DOMAIN rp.pending_confirmations
    THEN [err |-> "UnknownPendingBet", rp |-> rp, pf |-> pf, pos |-> 0]
    ELSE LET p == rp.pending_confirmations[event.bet_id]
             popped == rp
             placed == PortfolioPlaceBet(pf, p.bet_id, p.race_id, p.bet_type,
                                         p.combination, p.stake, p.placed_at)
         IN  IF placed.err # ""
             THEN [err |-> placed.err, rp |-> popped, pf |-> pf, pos |-> 0]
             ELSE IF rp.kind = "sim"
             THEN [err |-> "",
                   rp |-> [popped EXCEPT !.pending[p.race_id] = Append(@, p.bet_id)],
                   pf |-> placed.pf, pos |-> p.bet_id]
             ELSE [err |-> "", rp |-> popped,
                   pf |-> [placed.pf EXCEPT !.positions[p.bet_id].status = "submitted"],
                   pos |-> p.bet_id]

\* A variant that records the position without tracking it for settlement.
ConfirmBetUntracked(rp, pf, event) ==
    IF event.bet_id \notin DOMAIN rp.pending_confirmations
    THEN [err |-> "UnknownPendingBet", rp |-> rp, pf |-> pf, pos |-> 0]
    ELSE LET p == rp.pending_confirmations[event.bet_id]
             popped == [rp EXCEPT !.pending_confirmations =
                                     Without(rp.pending_confirmations, event.bet_id)]
             placed == PortfolioPlaceBet(pf, p.bet_id, p.race_id, p.bet_type,
                                         p.combination, p.stake, p.placed_at)
         IN  IF placed.err # ""
             THEN [err |-> placed.err, rp |-> popped, pf |-> pf, pos |-> 0]
             ELSE [err |-> "", rp |-> popped, pf |-> placed.pf, pos |-> p.bet_id]

\* confirm_bet (both variants): the pending entry is popped before the
\* portfolio is asked, so it is gone even when the portfolio raises.
RepoConfirmBet(rp, pf, event) ==
    IF event.bet_id \notin DOMAIN rp.pending_confirmations
    THEN [err |-> "UnknownPendingBet", rp |-> rp, pf |-> pf, pos |-> 0]
    ELSE LET p == rp.pending_confirmations[event.bet_id]
             popped == [rp EXCEPT !.pending_confirmations =
                                     Without(rp.pending_confirmations, event.bet_id)]
             placed == PortfolioPlaceBet(pf, p.bet_id, p.race_id, p.bet_type,
                                         p.combination, p.stake, p.placed_at)
         IN  IF placed.err # ""
             THEN [err |-> placed.err, rp |-> popped, pf |-> pf, pos |-> 0]
             ELSE IF rp.kind = "sim"
             THEN [err |-> "",
                   rp |-> [popped EXCEPT !.pending[p.race_id] = Append(@, p.bet_id)],
                   pf |-> placed.pf, pos |-> p.bet_id]
             ELSE [err |-> "", rp |-> popped,
                   pf |-> [placed.pf EXCEPT !.positions[p.bet_id].status = "submitted"],
                   pos |-> p.bet_id]

\* The loop of SimulationBettingRepository.settle_race over the popped list.
RECURSIVE SettleLoop(_, _, _, _, _)
SettleLoop(pf, ids, i, payoffs, settled) ==
    IF i > Len(ids) THEN [err |-> "", pf |-> pf, settled |-> settled]
    ELSE LET payout == calculate_payout(pf.positions[ids[i]], payoffs)
             r == PortfolioSettleBet(pf, ids[i], payout)
         IN  IF r.err # "" THEN [err |-> r.err, pf |-> pf, settled |-> settled]
             ELSE SettleLoop(r.pf, ids, i + 1, payoffs, Append(settled, ids[i]))

\* A variant whose live branch reports the recorded positions of the race.
SettleRaceLiveReports(rp, pf, race_id) ==
    IF rp.kind = "live"
    THEN LET on_race == {i \in DOMAIN pf.positions : pf.positions[i].race_id = race_id}
         IN  [err |-> "", rp |-> rp, pf |-> pf,
              settled |-> IF on_race = {} THEN << >> ELSE <<CHOOSE i \in on_race : TRUE>>]
    ELSE LET ids == IF race_id \in DOMAIN rp.pending THEN rp.pending[race_id] ELSE << >>
             popped == IF race_id \in DOMAIN rp.pending
                       THEN [rp EXCEPT !.pending[race_id] = << >>] ELSE rp
             r == SettleLoop(pf, ids, 1, get_payoffs(race_id), << >>)
         IN  [err |-> r.err, rp |-> popped, pf |-> r.pf, settled |-> r.settled]

\* settle_race: the simulation variant settles everything pending for the
\* race against the repository's payoffs; the live variant returns [].
RepoSettleRace(rp, pf, race_id) ==
    IF rp.kind = "live" THEN [err |-> "", rp |-> rp, pf |-> pf, settled |-> << >>]
    ELSE LET ids == IF race_id \in DOMAIN rp.pending THEN rp.pending[race_id] ELSE << >>
             popped == IF race_id \in DOMAIN rp.pending
                       THEN [rp EXCEPT !.pending[race_id] = << >>] ELSE rp
             r == SettleLoop(pf, ids, 1, get_payoffs(race_id), << >>)
         IN  [err |-> r.err, rp |-> popped, pf |-> r.pf, settled |-> r.settled]

(* ------------------------------ clocks -------------------------------- *)

\* Clock.now(): the simulated clock reads _now (the wall clock while _now is
\* None); the real clock reads the wall clock.
ClockNow(kind, sim_now, w) == IF kind = "sim" /\ sim_now # NoTime THEN sim_now ELSE w

\* A variant that takes the moment whatever the current time is.
AdvanceToAssign(kind, sim_now, moment) == IF kind = "sim" THEN moment ELSE sim_now

\* Clock.advance_to(moment): the new value of SimulatedClock._now; the real
\* clock ignores the call.
AdvanceTo(kind, sim_now, moment) ==
    IF kind = "sim" /\ (sim_now = NoTime \/ moment > sim_now) THEN moment ELSE sim_now

(* --------------------------- schedule entries -------------------------- *)

\* ScheduleEntry: cron holds the minute field of the expression (NoTime for
\* "*"; the other four fields are "*"); cron_current is the croniter's
\* position, NoTime while _cron_iter is None.  The indexes are Python's
\* (0-based, -1 initially).
ScheduleEntry(mode, time_of_day, offset, cron) ==
    [mode |-> mode, time_of_day |-> time_of_day, offset |-> offset, cron |-> cron,
     next_due |-> NoTime, last_index |-> -1, target_index |-> -1,
     cron_current |-> NoTime]

reset_for_run(e) ==
    [e EXCEPT !.next_due = NoTime, !.last_index = -1, !.target_index = -1,
              !.cron_current = NoTime]

\* _FallbackCroniter.get_next: the first later slot that matches.
CronMatches(expr, t) == expr = NoTime \/ t % Day = expr
CronNext(expr, current) ==
    SetMin({t \in (current + 1)..(current + Day) : CronMatches(expr, t)})

\* A variant that never accepts the current instant.
NextAbsoluteStrict(e, current, allow_equal) ==
    LET candidate == (current \div Day) * Day + e.time_of_day
    IN  IF candidate <= current THEN candidate + Day ELSE candidate

\* ScheduleEntry._next_absolute
next_absolute(e, current, allow_equal) ==
    LET candidate == (current \div Day) * Day + e.time_of_day
    IN  IF candidate < current \/ (candidate = current /\ ~allow_equal)
        THEN candidate + Day ELSE candidate

\* A variant that demands a trigger strictly after the current time.
RelativeNextStrict(e, current, dates) ==
    LET start_index == Max(e.last_index + 1, 0)
        hits == {idx \in start_index..(Len(dates) - 1) :
                    dates[idx + 1] + e.offset > current}
    IN  IF hits # {}
        THEN [e EXCEPT !.target_index = SetMin(hits),
                       !.next_due = dates[SetMin(hits) + 1] + e.offset]
        ELSE [e EXCEPT !.next_due = NoTime, !.target_index = Len(dates)]

\* ScheduleEntry._compute_relative_next; dates is the sorted race snapshot's
\* start times.
compute_relative_next(e, current, dates) ==
    LET start_index == Max(e.last_index + 1, 0)
        hits == {idx \in start_index..(Len(dates) - 1) :
                    dates[idx + 1] + e.offset >= current}
    IN  IF hits # {}
        THEN [e EXCEPT !.target_index = SetMin(hits),
                       !.next_due = dates[SetMin(hits) + 1] + e.offset]
        ELSE [e EXCEPT !.next_due = NoTime, !.target_index = Len(dates)]

CapAtTimelineEnd(e, timeline_end) ==
    IF e.next_due # NoTime /\ e.next_due > timeline_end
    THEN [e EXCEPT !.next_due = NoTime] ELSE e

\* ScheduleEntry.prepare
prepare(e, current, dates, tick, timeline_end) ==
    CapAtTimelineEnd(
        CASE e.mode = "absolute" ->
                [e EXCEPT !.next_due = next_absolute(e, current, TRUE)]
          [] e.mode = "relative" ->
                compute_relative_next([e EXCEPT !.last_index = -1], current, dates)
          [] OTHER ->
                LET c == CronNext(e.cron, current - tick)
                IN  [e EXCEPT !.cron_current = c, !.next_due = c],
        timeline_end)

\* ScheduleEntry.advance
advance(e, current, dates, timeline_end) ==
    CapAtTimelineEnd(
        CASE e.mode = "absolute" ->
                [e EXCEPT !.next_due = next_absolute(e, current, FALSE)]
          [] e.mode = "relative" ->
                compute_relative_next([e EXCEPT !.last_index = e.target_index],
                                      current, dates)
          [] OTHER ->
                LET c == CronNext(e.cron, IF e.cron_current = NoTime THEN current
                                          ELSE e.cron_current)
                IN  [e EXCEPT !.cron_current = c, !.next_due = c],
        timeline_end)

(* ---------------------------- event queue ------------------------------ *)

\* The engine's run state: _event_queue (a heap of (when, order, event),
\* held as a set), _counter, _front_counter, _next_tick_time, _schedules,
\* _timeline_end, _running.
EngineInit ==
    [queue |-> {}, counter |-> 0, front_counter |-> -1, next_tick_time |-> NoTime,
     schedules |-> << >>, timeline_end |-> NoTime, running |-> FALSE]

Before(a, b) == a.when < b.when \/ (a.when = b.when /\ a.order < b.order)

PopMinLargestOrder(queue) ==
    CHOOSE a \in queue : \A b \in queue \ {a} :
        a.when < b.when \/ (a.when = b.when /\ a.order > b.order)

\* heapq.heappop on (when, order, event) tuples: orders are unique.
PopMin(queue) == CHOOSE a \in queue : \A b \in queue \ {a} : Before(a, b)

EnqueueAllBack(E, event) ==
    [E EXCEPT !.queue = @ \cup {[when |-> event.at, order |-> E.counter, ev |-> event]},
              !.counter = @ + 1]

\* Engine._enqueue
Enqueue(E, event) ==
    IF event.type = "time"
    THEN [E EXCEPT !.queue = @ \cup {[when |-> event.at, order |-> E.front_counter,
                                      ev |-> event]},
                   !.front_counter = @ - 1]
    ELSE [E EXCEPT !.queue = @ \cup {[when |-> event.at, order |-> E.counter,
                                      ev |-> event]},
                   !.counter = @ + 1]

\* A variant that stamps the front event one tick interval later.
EnqueueFrontNextSlot(E, event) ==
    [E EXCEPT !.queue = @ \cup {[when |-> event.at + TickInterval, order |-> E.front_counter,
                                 ev |-> event]},
              !.front_counter = @ - 1]

\* A variant that queues the event behind everything at its timestamp.
EnqueueFrontAtBack(E, event) ==
    [E EXCEPT !.queue = @ \cup {[when |-> event.at, order |-> E.counter, ev |-> event]},
              !.counter = @ + 1]

\* Engine._enqueue_front
EnqueueFront(E, event) ==
    [E EXCEPT !.queue = @ \cup {[when |-> event.at, order |-> E.front_counter,
                                 ev |-> event]},
              !.front_counter = @ - 1]

(* -------------------------- engine helpers ----------------------------- *)

\* SimulationDataRepository.get_publish_time
get_publish_time(date, delay, data_type) ==
    IF data_type = "race" THEN date ELSE date + delay

\* _sorted_races: sorted() is stable, ties keep the repository's order.
RaceIndex(r) == CHOOSE i \in 1..Len(RaceOrder) : RaceOrder[i] = r
sorted_races(date) ==
    CHOOSE s \in [1..Cardinality(DOMAIN date) -> DOMAIN date] :
        \A i, j \in 1..Cardinality(DOMAIN date) :
            i < j => \/ date[s[i]] < date[s[j]]
                     \/ (date[s[i]] = date[s[j]] /\ RaceIndex(s[i]) < RaceIndex(s[j]))

\* Engine._compute_timeline_end
TimelineEndNoTail(E, dates, delay, now) ==
    IF Len(dates) = 0 THEN now
    ELSE LET last_race_time == SetMax(Range(dates))
             offsets == {E.schedules[i].offset : i \in
                            {k \in 1..Len(E.schedules) :
                                E.schedules[k].mode = "relative"
                                /\ E.schedules[k].offset > 0}}
             max_offset == IF offsets = {} THEN 0 ELSE SetMax(offsets)
             payoff_times == {get_publish_time(dates[i], delay, "payoff") :
                                 i \in 1..Len(dates)}
         IN  Max(last_race_time + max_offset, SetMax(payoff_times))

TimelineEndLongTail(E, dates, delay, now) ==
    IF Len(dates) = 0 THEN now
    ELSE SetMax(Range(dates)) + 2 * Day + SetMax({E.schedules[i].offset : i \in 1..Len(E.schedules)} \cup {delay})

compute_timeline_end(E, dates, delay, now) ==
    IF Len(dates) = 0 THEN now
    ELSE LET last_race_time == SetMax(Range(dates))
             offsets == {E.schedules[i].offset : i \in
                            {k \in 1..Len(E.schedules) :
                                E.schedules[k].mode = "relative"
                                /\ E.schedules[k].offset > 0}}
             max_offset == IF offsets = {} THEN 0 ELSE SetMax(offsets)
             payoff_times == {get_publish_time(dates[i], delay, "payoff") :
                                 i \in 1..Len(dates)}
         IN  Max(Max(last_race_time + max_offset, SetMax(payoff_times)),
                 last_race_time + Day)

\* A variant that ignores the timeline end.
NextTickPastEnd(E, kind, now, tick) ==
    LET has_non_time == \E q \in E.queue : q.ev.type # "time"
        has_schedule == \E i \in 1..Len(E.schedules) : E.schedules[i].next_due # NoTime
        next_tick_time == now + tick
    IN  IF ~E.running THEN E
        ELSE IF ~has_non_time /\ ~has_schedule THEN E
        ELSE IF E.next_tick_time # NoTime /\ next_tick_time >= E.next_tick_time THEN E
        ELSE Enqueue([E EXCEPT !.next_tick_time = next_tick_time],
                     TimeEvent(next_tick_time))

\* A variant that never looks at the recorded next tick time.
NextTickUnguarded(E, kind, now, tick) ==
    LET has_non_time == \E q \in E.queue : q.ev.type # "time"
        has_schedule == \E i \in 1..Len(E.schedules) : E.schedules[i].next_due # NoTime
        candidate_times ==
            {q.when : q \in {x \in E.queue : x.when > now /\ x.ev.type # "time"}}
            \cup {E.schedules[i].next_due : i \in
                     {k \in 1..Len(E.schedules) :
                         E.schedules[k].next_due # NoTime
                         /\ E.schedules[k].next_due > now}}
        next_tick_time == IF kind = "sim" THEN SetMin(candidate_times)
                          ELSE now + tick
    IN  IF ~E.running THEN E
        ELSE IF ~has_non_time /\ ~has_schedule THEN E
        ELSE IF kind = "sim" /\ candidate_times = {} THEN E
        ELSE IF E.timeline_end # NoTime /\ next_tick_time > E.timeline_end THEN E
        ELSE Enqueue([E EXCEPT !.next_tick_time = next_tick_time],
                     TimeEvent(next_tick_time))

\* A variant that cancels the queued ticks later than the one it enqueues.
NextTickCancelsLater(E, kind, now, tick) ==
    LET has_non_time == \E q \in E.queue : q.ev.type # "time"
        has_schedule == \E i \in 1..Len(E.schedules) : E.schedules[i].next_due # NoTime
        candidate_times ==
            {q.when : q \in {x \in E.queue : x.when > now /\ x.ev.type # "time"}}
            \cup {E.schedules[i].next_due : i \in
                     {k \in 1..Len(E.schedules) :
                         E.schedules[k].next_due # NoTime
                         /\ E.schedules[k].next_due > now}}
        next_tick_time == IF kind = "sim" THEN SetMin(candidate_times)
                          ELSE now + tick
    IN  IF ~E.running THEN E
        ELSE IF ~has_non_time /\ ~has_schedule THEN E
        ELSE IF kind = "sim" /\ candidate_times = {} THEN E
        ELSE IF E.timeline_end # NoTime /\ next_tick_time > E.timeline_end THEN E
        ELSE IF E.next_tick_time # NoTime /\ next_tick_time >= E.next_tick_time THEN E
        ELSE Enqueue([E EXCEPT !.next_tick_time = next_tick_time,
                               !.queue = {q \in @ : q.ev.type # "time"
                                                    \/ q.when <= next_tick_time}],
                     TimeEvent(next_tick_time))

\* Engine._schedule_next_tick
schedule_next_tick(E, kind, now, tick) ==
    LET has_non_time == \E q \in E.queue : q.ev.type # "time"
        has_schedule == \E i \in 1..Len(E.schedules) : E.schedules[i].next_due # NoTime
        candidate_times ==
            {q.when : q \in {x \in E.queue : x.when > now /\ x.ev.type # "time"}}
            \cup {E.schedules[i].next_due : i \in
                     {k \in 1..Len(E.schedules) :
                         E.schedules[k].next_due # NoTime
                         /\ E.schedules[k].next_due > now}}
        next_tick_time == IF kind = "sim" THEN SetMin(candidate_times)
                          ELSE now + tick
    IN  IF ~E.running THEN E
        ELSE IF ~has_non_time /\ ~has_schedule THEN E
        ELSE IF kind = "sim" /\ candidate_times = {} THEN E
        ELSE IF E.timeline_end # NoTime /\ next_tick_time > E.timeline_end THEN E
        ELSE IF E.next_tick_time # NoTime /\ next_tick_time >= E.next_tick_time THEN E
        ELSE Enqueue([E EXCEPT !.next_tick_time = next_tick_time],
                     TimeEvent(next_tick_time))

\* A variant whose mid-run branch prepares the entry without keeping it.
ScheduleMidRunDropsEntry(E, entry, kind, now, dates, delay, tick) ==
    IF ~E.running THEN [E EXCEPT !.schedules = Append(@, entry)]
    ELSE schedule_next_tick(
             [E EXCEPT !.timeline_end = compute_timeline_end(E, dates, delay, now)],
             kind, now, tick)

\* Engine.schedule with valid arguments: the entry is appended and, during a
\* run, prepared against the clock, after which the next tick is rescheduled.
engine_schedule(E, entry, kind, now, dates, delay, tick) ==
    LET appended == [E EXCEPT !.schedules = Append(@, entry)]
        n == Len(appended.schedules)
        tend == compute_timeline_end(appended, dates, delay, now)
    IN  IF ~E.running THEN appended
        ELSE schedule_next_tick(
                 [appended EXCEPT !.timeline_end = tend,
                                  !.schedules[n] = prepare(reset_for_run(entry), now,
                                                           dates, tick, tend)],
                 kind, now, tick)

\* LiveDataRepository._publish_times before anything is registered: None
\* (NoTime) for every race and data type.
NoPublishTimes == [r \in RaceIds |-> [race |-> NoTime, payoff |-> NoTime]]

\* The simulation data repository keeps no publish times: it computes them.
SimDataRepo == [kind |-> "sim", publish_times |-> NoPublishTimes]

\* No payout calculation has been set up.
NoPayCall == [position |-> << >>, payoffs |-> << >>, payout |-> 0, done |-> FALSE]

\* No earlier run has been recorded.
NoFirstRun == [entries |-> << >>, fired |-> << >>, recorded |-> FALSE]

(* ------------------------------- state --------------------------------- *)

VARIABLES
    pc,           \* where the run is: "ctor", a strategy hook, "due", "idle", "done", "failed"
    cur,          \* the event being handled
    schedIdx,     \* position of _run_due_schedules in _schedules (1-based)
    clockKind,    \* "sim" (SimulatedClock) or "real" (RealClock)
    wall,         \* the wall clock
    simNow,       \* SimulatedClock._now
    raceDate,     \* the data repository: race id -> scheduled start
    payoffDelay,  \* the data repository's payoff publication delay
    races,        \* Engine._races: the sorted snapshot (race ids)
    eng,          \* the engine's queue, counters, schedules, timeline end
    rp,           \* the betting repository
    pf,           \* the portfolio
    error,        \* the error that ended the run, "" when none
    callsLeft,    \* place_bet and schedule calls still to be made
    prevPop,      \* timestamp of the event popped before the last one
    lastPop,      \* timestamp of the last event popped
    delivered,    \* races whose payoff DataEvent has been popped
    resultsEnq,   \* race id -> number of ResultEvents enqueued
    resultsDel,   \* race id -> number of on_result calls
    reqLog,       \* the BetRequestEvents popped, in order
    onBetLog,     \* the events passed to on_bet, in order
    openReq,      \* timestamp of a popped request whose confirmation is not handled yet
    tickBetween,  \* a tick at that timestamp was handled in between
    lastConf,     \* the event the last place_bet returned
    calls,        \* calls made in the stand-alone specifications
    qlog,         \* stand-alone queue specification: the insertions, in order
    qpops,        \* stand-alone queue specification: the insertions popped, in order
    fired,        \* the schedule callbacks invoked, in order: entry index, clock time
                  \* and the next_due the entry had
    tickInterval, \* Engine._tick_interval (tick_seconds), in slots
    firstRun,     \* the schedules and invocations of an earlier run to compare with
    dataRepo,     \* the data repository's variant and registered publish times
    dataLog,      \* the DataEvents passed to on_data, in order
    payCall       \* stand-alone payout calculation: the arguments and the result

vars ==
    << pc, cur, schedIdx, clockKind, wall, simNow, raceDate, payoffDelay, races,
       eng, rp, pf, error, callsLeft, prevPop, lastPop, delivered,
       resultsEnq, resultsDel, reqLog, onBetLog, openReq, tickBetween, lastConf,
       calls, qlog, qpops, fired, tickInterval, firstRun, dataRepo, dataLog, payCall >>

dataVars == << clockKind, raceDate, payoffDelay, tickInterval, firstRun, dataRepo, payCall >>
popVars ==
    << prevPop, lastPop, delivered, dataLog, resultsEnq, resultsDel, reqLog, onBetLog,
       openReq, tickBetween, lastConf >>
histVars == << popVars, fired >>
aloneVars == << calls, qlog, qpops >>

Hooks == {"on_start", "on_time", "on_data", "on_bet", "on_result", "callback"}

Dates == [i \in 1..Len(races) |-> raceDate[races[i]]]

\* What a read of the clock may return: the real clock moves on its own.
WallReads ==
    IF clockKind = "real" THEN {wall} \cup {w \in {wall + 1} : w <= MaxWall} ELSE {wall}

\* A wall-clock reading after every race, payoff and one-day tail.
LateWall == MaxDate + Day + 1

\* The wall clock when the engine is built: before the first race or, for a
\* run on the real clock, possibly after everything in the catalogue.
WallStarts(kind) == IF kind = "real" THEN {0, LateWall} ELSE {0}

Entries ==
    {ScheduleEntry("absolute", t, 0, NoTime) : t \in TimesOfDay}
    \cup {ScheduleEntry("relative", NoTime, d, NoTime) : d \in Offsets}
    \cup {ScheduleEntry("cron", NoTime, 0, m) : m \in CronMinutes}

\* The clock and the betting repository the engine is built with.
Configs == {<<"sim", "sim">>, <<"sim", "live">>, <<"real", "sim">>}

\* The race catalogue: the earliest race starts at slot 1.
RaceDates == {d \in [Races -> 1..MaxDate] : \E r \in Races : d[r] = 1}

Init ==
    /\ pc = "ctor"
    /\ cur = EvBase
    /\ schedIdx = 0
    /\ \E k \in Configs : clockKind = k[1] /\ rp = RepoCreate(k[2])
    /\ tickInterval = TickInterval
    /\ firstRun = NoFirstRun
    /\ dataRepo = SimDataRepo
    /\ payCall = NoPayCall
    /\ wall \in WallStarts(clockKind)
    /\ simNow = NoTime
    /\ raceDate \in RaceDates
    /\ payoffDelay \in PayoffDelays
    /\ races = << >>
    /\ eng = EngineInit
    /\ \E b \in Bankrolls : pf = PortfolioCreate(b)
    /\ error = ""
    /\ callsLeft = MaxCalls
    /\ prevPop = NoTime
    /\ lastPop = NoTime
    /\ delivered = {}
    /\ dataLog = << >>
    /\ resultsEnq = [r \in RaceIds |-> 0]
    /\ resultsDel = [r \in RaceIds |-> 0]
    /\ reqLog = << >>
    /\ onBetLog = << >>
    /\ openReq = NoTime
    /\ tickBetween = FALSE
    /\ lastConf = EvBase
    /\ calls = 0
    /\ qlog = << >>
    /\ qpops = << >>
    /\ fired = << >>

(* ------------------------------ the run -------------------------------- *)

\* Engine.schedule called on the engine before run().
PreSchedule(entry) ==
    /\ pc = "ctor"
    /\ callsLeft > 0
    /\ eng' = engine_schedule(eng, entry, clockKind, wall, Dates, payoffDelay, tickInterval)
    /\ callsLeft' = callsLeft - 1
    /\ UNCHANGED << pc, cur, schedIdx, wall, simNow, races, rp, pf, error >>
    /\ UNCHANGED << dataVars, histVars, aloneVars >>

\* Engine.run up to the call of strategy.on_start.
Run(w) ==
    /\ pc = "ctor"
    /\ LET rs == sorted_races(raceDate)
           start_time == IF clockKind = "sim" /\ Len(rs) > 0 THEN raceDate[rs[1]] ELSE w
       IN  /\ races' = rs
           /\ simNow' = IF clockKind = "sim" THEN start_time ELSE simNow
           /\ eng' = [eng EXCEPT !.queue = {}, !.counter = 0, !.front_counter = -1,
                                 !.next_tick_time = NoTime,
                                 !.timeline_end = start_time, !.running = TRUE]
    /\ wall' = w
    /\ pc' = "on_start"
    /\ UNCHANGED << cur, schedIdx, rp, pf, error, callsLeft >>
    /\ UNCHANGED << dataVars, histVars, aloneVars >>

\* The seeding loop of Engine.run, from race i on.
RECURSIVE Seed(_, _, _, _, _, _)
Seed(E, i, rs, dates, delay, now) ==
    IF i > Len(rs) THEN E
    ELSE LET available_at == Max(get_publish_time(dates[i], delay, "race"), now)
             publish_time ==
                 Max(Max(get_publish_time(dates[i], delay, "payoff"), available_at), now)
         IN  Seed(Enqueue(Enqueue(E, DataEvent("race", rs[i], available_at)),
                          DataEvent("payoff", rs[i], publish_time)),
                  i + 1, rs, dates, delay, now)

\* Engine.run after on_start returned: timeline end, schedule preparation,
\* seeding and the initial tick.
ReturnOnStart ==
    /\ pc = "on_start"
    /\ LET now == ClockNow(clockKind, simNow, wall)
           tend == compute_timeline_end(eng, Dates, payoffDelay, now)
           prepared == [eng EXCEPT
                           !.timeline_end = tend,
                           !.schedules = [i \in 1..Len(eng.schedules) |->
                               prepare(reset_for_run(eng.schedules[i]), now, Dates, tickInterval, tend)]]
           seeded == Seed(prepared, 1, races, Dates, payoffDelay, now)
       IN  eng' = Enqueue([seeded EXCEPT !.next_tick_time = now], TimeEvent(now))
    /\ UNCHANGED wall
    /\ pc' = "idle"
    /\ UNCHANGED << cur, schedIdx, simNow, races, rp, pf, error, callsLeft >>
    /\ UNCHANGED << dataVars, histVars, aloneVars >>

\* BaseStrategy.place_bet and Engine.submit_bet, called from a hook.
StratPlaceBet(race_id, combination, stake, placed_at) ==
    /\ pc \in Hooks
    /\ callsLeft > 0
    /\ LET now == ClockNow(clockKind, simNow, wall)
           at == IF placed_at # NoTime THEN placed_at ELSE now
       IN  eng' = Enqueue(eng, BetRequestEvent(race_id, "win", combination, stake, at))
    /\ UNCHANGED wall
    /\ callsLeft' = callsLeft - 1
    /\ UNCHANGED << pc, cur, schedIdx, simNow, races, rp, pf, error >>
    /\ UNCHANGED << dataVars, histVars, aloneVars >>

\* BaseStrategy.schedule and Engine.schedule, called from a hook.
StratSchedule(entry) ==
    /\ pc \in Hooks
    /\ callsLeft > 0
    /\ eng' = engine_schedule(eng, entry, clockKind, ClockNow(clockKind, simNow, wall),
                              Dates, payoffDelay, tickInterval)
    /\ UNCHANGED wall
    /\ callsLeft' = callsLeft - 1
    /\ UNCHANGED << pc, cur, schedIdx, simNow, races, rp, pf, error >>
    /\ UNCHANGED << dataVars, histVars, aloneVars >>

Top == PopMin(eng.queue)
Popped == [eng EXCEPT !.queue = @ \ {Top}]
CanPop(type) == pc = "idle" /\ eng.queue # {} /\ Top.ev.type = type
PopHistory ==
    /\ prevPop' = lastPop
    /\ lastPop' = Top.when

\* The finally block of Engine.run.
Stopped(E) ==
    [E EXCEPT !.running = FALSE, !.next_tick_time = NoTime, !.timeline_end = NoTime]

\* _process_events, TimeEvent branch, up to strategy.on_time.
PopTime ==
    /\ CanPop("time")
    /\ eng' = [Popped EXCEPT !.next_tick_time = NoTime]
    /\ cur' = [Top.ev EXCEPT !.at = Top.when]
    /\ simNow' = AdvanceTo(clockKind, simNow, Top.when)
    /\ pc' = "on_time"
    /\ PopHistory
    /\ tickBetween' = (tickBetween \/ (openReq # NoTime /\ openReq = Top.when))
    /\ UNCHANGED << schedIdx, wall, races, rp, pf, error, callsLeft >>
    /\ UNCHANGED << dataVars, aloneVars, fired, delivered, dataLog, resultsEnq, resultsDel, reqLog,
                    onBetLog, openReq, lastConf >>

\* on_time returned: _run_due_schedules starts at the first entry.
ReturnOnTime ==
    /\ pc = "on_time"
    /\ pc' = "due"
    /\ schedIdx' = 1
    /\ UNCHANGED << cur, wall, simNow, races, eng, rp, pf, error, callsLeft >>
    /\ UNCHANGED << dataVars, histVars, aloneVars >>

IsDue(e) == e.next_due # NoTime /\ cur.at >= e.next_due

\* _run_due_schedules: the entry is due, its callback is invoked.
DueInvoke ==
    /\ pc = "due"
    /\ schedIdx <= Len(eng.schedules)
    /\ IsDue(eng.schedules[schedIdx])
    /\ pc' = "callback"
    /\ fired' = Append(fired, [entry |-> schedIdx,
                               at |-> ClockNow(clockKind, simNow, wall),
                               due |-> eng.schedules[schedIdx].next_due])
    /\ UNCHANGED << cur, schedIdx, wall, simNow, races, eng, rp, pf, error, callsLeft >>
    /\ UNCHANGED << dataVars, popVars, aloneVars >>

\* The callback returned: the entry is advanced and tested again.
ReturnCallback ==
    /\ pc = "callback"
    /\ eng' = [eng EXCEPT !.schedules[schedIdx] =
                  advance(@, cur.at, Dates, eng.timeline_end)]
    /\ pc' = "due"
    /\ UNCHANGED << cur, schedIdx, wall, simNow, races, rp, pf, error, callsLeft >>
    /\ UNCHANGED << dataVars, histVars, aloneVars >>

\* _run_due_schedules: the entry is not due, on to the next one.
DueSkip ==
    /\ pc = "due"
    /\ schedIdx <= Len(eng.schedules)
    /\ ~IsDue(eng.schedules[schedIdx])
    /\ schedIdx' = schedIdx + 1
    /\ UNCHANGED << pc, cur, wall, simNow, races, eng, rp, pf, error, callsLeft >>
    /\ UNCHANGED << dataVars, histVars, aloneVars >>

\* All entries visited: _schedule_next_tick ends the TimeEvent branch.
DueDone(w) ==
    /\ pc = "due"
    /\ schedIdx > Len(eng.schedules)
    /\ clockKind = "real" => -eng.front_counter <= MaxFront
    /\ eng' = schedule_next_tick(eng, clockKind, ClockNow(clockKind, simNow, w), tickInterval)
    /\ wall' = w
    /\ pc' = "idle"
    /\ UNCHANGED << cur, schedIdx, simNow, races, rp, pf, error, callsLeft >>
    /\ UNCHANGED << dataVars, histVars, aloneVars >>

\* _process_events, DataEvent branch, up to strategy.on_data.
PopData ==
    /\ CanPop("data")
    /\ eng' = Popped
    /\ cur' = [Top.ev EXCEPT !.at = Top.when]
    /\ simNow' = AdvanceTo(clockKind, simNow, Top.when)
    /\ pc' = "on_data"
    /\ PopHistory
    /\ delivered' = IF Top.ev.kind = "payoff" THEN delivered \cup {Top.ev.race_id}
                    ELSE delivered
    /\ dataLog' = Append(dataLog, [kind |-> Top.ev.kind, race_id |-> Top.ev.race_id,
                                   at |-> Top.ev.at,
                                   now |-> ClockNow(clockKind, AdvanceTo(clockKind, simNow, Top.when), wall)])
    /\ UNCHANGED << schedIdx, wall, races, rp, pf, error, callsLeft >>
    /\ UNCHANGED << dataVars, aloneVars, fired, resultsEnq, resultsDel, reqLog, onBetLog,
                    openReq, tickBetween, lastConf >>

\* on_data returned: a payoff event settles the race and, when something
\* settled, enqueues a ResultEvent.
ReturnOnData ==
    /\ pc = "on_data"
    /\ LET s == RepoSettleRace(rp, pf, cur.race_id)
           now == ClockNow(clockKind, simNow, wall)
       IN  IF cur.kind # "payoff"
           THEN /\ pc' = "idle"
                /\ UNCHANGED << eng, rp, pf, error, resultsEnq >>
           ELSE /\ rp' = s.rp
                /\ pf' = s.pf
                /\ error' = s.err
                /\ pc' = IF s.err # "" THEN "failed" ELSE "idle"
                /\ eng' = IF s.err # "" THEN Stopped(eng)
                          ELSE IF s.settled # << >>
                          THEN Enqueue(eng, ResultEvent(cur.race_id, now))
                          ELSE eng
                /\ resultsEnq' = IF s.err = "" /\ s.settled # << >>
                                 THEN [resultsEnq EXCEPT ![cur.race_id] = @ + 1]
                                 ELSE resultsEnq
    /\ UNCHANGED wall
    /\ UNCHANGED << cur, schedIdx, simNow, races, callsLeft >>
    /\ UNCHANGED << dataVars, aloneVars, fired, prevPop, lastPop, delivered, dataLog, resultsDel,
                    reqLog, onBetLog, openReq, tickBetween, lastConf >>

\* _process_events, BetRequestEvent branch: the whole handler.
HandleBetRequest ==
    /\ CanPop("request")
    /\ LET ev == Top.ev
           r == RepoPlaceBet(rp, pf, ev.race_id, ev.combination, ev.stake, ev.bet_type,
                             Top.when)
       IN  /\ eng' = EnqueueFront(Popped, r.conf)
           /\ rp' = r.rp
           /\ lastConf' = r.conf
           /\ reqLog' = Append(reqLog, [ev EXCEPT !.at = Top.when])
    /\ cur' = [Top.ev EXCEPT !.at = Top.when]
    /\ simNow' = AdvanceTo(clockKind, simNow, Top.when)
    /\ openReq' = Top.when
    /\ PopHistory
    /\ UNCHANGED << pc, schedIdx, wall, races, pf, error, callsLeft >>
    /\ UNCHANGED << dataVars, aloneVars, fired, delivered, dataLog, resultsEnq, resultsDel, onBetLog,
                    tickBetween >>

OnBetAcceptedOnly(log, event) == IF event.accepted THEN Append(log, event) ELSE log

\* strategy.on_bet(event): the call at the end of the BetConfirmationEvent branch.
OnBet(log, event) == Append(log, event)

\* _process_events, BetConfirmationEvent branch, up to strategy.on_bet.
PopConfirmation ==
    /\ CanPop("confirmation")
    /\ \E ev \in {Top.ev} :
       \E c \in {RepoConfirmBet(rp, pf, ev)} :
       \E s \in {RepoSettleRace(c.rp, c.pf, ev.race_id)} :
       LET now == ClockNow(clockKind, AdvanceTo(clockKind, simNow, Top.when), wall)
       IN  IF ~ev.accepted
           THEN /\ cur' = [ev EXCEPT !.at = Top.when]
                /\ onBetLog' = OnBet(onBetLog, [ev EXCEPT !.at = Top.when])
                /\ eng' = Popped
                /\ pc' = "on_bet"
                /\ UNCHANGED << rp, pf, error, resultsEnq >>
           ELSE IF c.err # ""
           THEN /\ rp' = c.rp /\ pf' = c.pf /\ error' = c.err
                /\ pc' = "failed"
                /\ eng' = Stopped(Popped)
                /\ UNCHANGED << cur, onBetLog, resultsEnq >>
           ELSE IF s.err # ""
           THEN /\ rp' = s.rp /\ pf' = s.pf /\ error' = s.err
                /\ pc' = "failed"
                /\ eng' = Stopped(Popped)
                /\ UNCHANGED << cur, onBetLog, resultsEnq >>
           ELSE /\ rp' = s.rp /\ pf' = s.pf
                /\ cur' = [ev EXCEPT !.at = Top.when, !.position = c.pos]
                /\ onBetLog' = OnBet(onBetLog,
                                     [ev EXCEPT !.at = Top.when, !.position = c.pos])
                /\ eng' = IF s.settled # << >>
                          THEN Enqueue(Popped, ResultEvent(ev.race_id, now))
                          ELSE Popped
                /\ resultsEnq' = IF s.settled # << >>
                                 THEN [resultsEnq EXCEPT ![ev.race_id] = @ + 1]
                                 ELSE resultsEnq
                /\ pc' = "on_bet"
                /\ UNCHANGED error
    /\ simNow' = AdvanceTo(clockKind, simNow, Top.when)
    /\ UNCHANGED wall
    /\ openReq' = NoTime
    /\ PopHistory
    /\ UNCHANGED << schedIdx, races, callsLeft >>
    /\ UNCHANGED << dataVars, aloneVars, fired, delivered, dataLog, resultsDel, reqLog, tickBetween,
                    lastConf >>

\* _process_events, ResultEvent branch, up to strategy.on_result.
PopResult ==
    /\ CanPop("result")
    /\ eng' = Popped
    /\ cur' = [Top.ev EXCEPT !.at = Top.when]
    /\ simNow' = AdvanceTo(clockKind, simNow, Top.when)
    /\ pc' = "on_result"
    /\ resultsDel' = [resultsDel EXCEPT ![Top.ev.race_id] = @ + 1]
    /\ PopHistory
    /\ UNCHANGED << schedIdx, wall, races, rp, pf, error, callsLeft >>
    /\ UNCHANGED << dataVars, aloneVars, fired, delivered, dataLog, resultsEnq, reqLog, onBetLog,
                    openReq, tickBetween, lastConf >>

\* on_bet or on_result returned: the handler is over.
ReturnHook ==
    /\ pc \in {"on_bet", "on_result"}
    /\ pc' = "idle"
    /\ UNCHANGED << cur, schedIdx, wall, simNow, races, eng, rp, pf, error, callsLeft >>
    /\ UNCHANGED << dataVars, histVars, aloneVars >>

\* The queue is empty: _process_events returns and run() ends.
Finish ==
    /\ pc = "idle"
    /\ eng.queue = {}
    /\ eng' = Stopped(eng)
    /\ pc' = "done"
    /\ UNCHANGED << cur, schedIdx, wall, simNow, races, rp, pf, error, callsLeft >>
    /\ UNCHANGED << dataVars, histVars, aloneVars >>

Next ==
    \/ \E e \in Entries : PreSchedule(e)
    \/ \E w \in WallReads : Run(w)
    \/ ReturnOnStart
    \/ \E r \in Races, c \in Combinations, st \in Stakes, pa \in PlacedAts :
          StratPlaceBet(r, c, st, pa)
    \/ \E e \in Entries : StratSchedule(e)
    \/ PopTime
    \/ ReturnOnTime
    \/ DueInvoke
    \/ ReturnCallback
    \/ DueSkip
    \/ \E w \in WallReads : DueDone(w)
    \/ PopData
    \/ ReturnOnData
    \/ HandleBetRequest
    \/ PopConfirmation
    \/ PopResult
    \/ ReturnHook
    \/ Finish

Spec == Init /\ [][Next]_vars

(* ------------------------- claims on the run --------------------------- *)

\* A handler has returned: the loop is about to pop, or the run is over.
AfterHandler == pc \in {"idle", "done", "failed"}

RECURSIVE SumLosses(_, _)
SumLosses(f, ids) ==
    IF ids = {} THEN 0
    ELSE LET i == CHOOSE x \in ids : TRUE
         IN  (f[i].stake - f[i].payout) + SumLosses(f, ids \ {i})

unsettled_positions(p) == {i \in DOMAIN p.positions : p.positions[i].status # "settled"}

\* C1: each event popped from the queue has a timestamp greater than or
\* equal to the timestamp of the event popped immediately before it.
C1_PopOrderNonDecreasing == prevPop # NoTime => lastPop >= prevPop

C3_OneResultPerRace ==
    pc = "done" =>
        \A r \in Races :
            (r \in delivered
             /\ \E i \in 1..Len(onBetLog) : onBetLog[i].accepted /\ onBetLog[i].race_id = r)
            => (resultsEnq[r] = 1 /\ resultsDel[r] = 1)

\* C4 as stated: after every handler, cash plus the stakes of open positions
\* plus the stakes of pending (accepted, unconfirmed) bets plus stake - payout
\* over settled positions equals initial_bankroll.
C4_ConservationWithPending ==
    AfterHandler =>
        pf.cash + SumStakes(pf.positions, open_positions(pf))
                + SumStakes(rp.pending_confirmations, DOMAIN rp.pending_confirmations)
                + SumLosses(pf.positions, settled_positions(pf))
        = pf.initial_bankroll

\* C4 amended: after every handler, cash plus the stakes of the positions
\* not yet settled (open, or submitted in the live variant) plus
\* stake - payout over settled positions equals initial_bankroll; the stakes
\* of pending bets are reserved, not deducted, and do not enter the sum.
C4_Conservation ==
    AfterHandler =>
        pf.cash + SumStakes(pf.positions, unsettled_positions(pf))
                + SumLosses(pf.positions, settled_positions(pf))
        = pf.initial_bankroll

\* C4 witness: a handler has returned with one position settled at a profit,
\* another position recorded and a bet pending.
C4_Witness ==
    /\ AfterHandler
    /\ \E i \in settled_positions(pf) : pf.positions[i].payout > 0
    /\ Cardinality(DOMAIN pf.positions) = 2
    /\ pf.cash # pf.initial_bankroll

\* C5: portfolio.cash is never negative after a handler.
C5_CashNonNegative == AfterHandler => pf.cash >= 0

\* C5 witness: the whole cash has been staked.
C5_Witness == AfterHandler /\ pf.cash = 0 /\ DOMAIN pf.positions # {}

SameBet(a, b) ==
    a.race_id = b.race_id /\ a.stake = b.stake /\ a.combination = b.combination

\* The confirmations waiting in the queue.
QueuedConfirmations == {q \in eng.queue : q.ev.type = "confirmation"}

\* C6: every popped BetRequestEvent has exactly one BetConfirmationEvent with
\* the same race_id, stake and combination, which is either waiting in the
\* queue or has been passed to on_bet exactly once; when the run is over all
\* of them have been passed to on_bet.
C6_OneConfirmationPerRequest ==
    pc # "failed" =>
        /\ Len(reqLog) = Len(onBetLog) + Cardinality(QueuedConfirmations)
        /\ \A i \in 1..Len(onBetLog) :
              onBetLog[i].type = "confirmation" /\ SameBet(onBetLog[i], reqLog[i])
        /\ \A q \in QueuedConfirmations : SameBet(q.ev, reqLog[Len(reqLog)])
        /\ \A i, j \in 1..Len(onBetLog) : i # j => onBetLog[i].bet_id # onBetLog[j].bet_id
        /\ (pc = "done" => Len(onBetLog) = Len(reqLog))

\* C6 witness: the run is over after an accepted and a rejected request.
C6_Witness ==
    /\ pc = "done"
    /\ Len(reqLog) = 2
    /\ \E i, j \in 1..Len(onBetLog) : onBetLog[i].accepted /\ ~onBetLog[j].accepted

\* The request at the head of the queue is one the repository rejects.
RejectableRequest ==
    /\ CanPop("request")
    /\ (Top.ev.stake <= 0 \/ Top.ev.stake > AvailableCash(rp, pf))

\* C8: handling a request with a non-positive stake or a stake above the
\* available cash raises nothing, leaves cash, positions and pending bets as
\* they were and puts a confirmation with accepted = false and a message in
\* the queue; handling that confirmation raises nothing, changes nothing
\* either and passes it to on_bet with no position attached.
C8_RejectionHarmless ==
    [][ /\ RejectableRequest =>
              /\ lastConf'.type = "confirmation"
              /\ ~lastConf'.accepted
              /\ lastConf'.message # ""
              /\ \E q \in eng'.queue : q.ev = lastConf'
              /\ pf' = pf
              /\ rp'.pending_confirmations = rp.pending_confirmations
              /\ rp'.pending = rp.pending
              /\ error' = "" /\ pc' # "failed"
        /\ (CanPop("confirmation") /\ ~Top.ev.accepted) =>
              /\ pc' = "on_bet"
              /\ cur'.type = "confirmation" /\ ~cur'.accepted /\ cur'.position = 0
              /\ onBetLog' = Append(onBetLog, cur')
              /\ pf' = pf
              /\ rp'.pending_confirmations = rp.pending_confirmations
              /\ rp'.pending = rp.pending
              /\ error' = ""
      ]_vars

\* C8 witness: a request above the available cash, made while a position is
\* on the books, has come back to on_bet rejected.
C8_Witness ==
    /\ pc = "on_bet"
    /\ ~cur.accepted /\ cur.stake > pf.cash /\ cur.position = 0
    /\ DOMAIN pf.positions # {}

\* C10: no TimeEvent with the timestamp of a popped request is handled
\* between that request and its confirmation.
C10_NoTickBeforeConfirmation == ~tickBetween

\* C10 witness: a confirmation is being handled right after its request
\* while a tick is waiting in the queue.
C10_Witness ==
    /\ pc = "on_bet"
    /\ Len(reqLog) = Len(onBetLog)
    /\ reqLog[Len(reqLog)].at = cur.at
    /\ \E q \in eng.queue : q.ev.type = "time"

(* ------------------ the betting repository on its own ------------------ *)

\* The variables the repository calls leave alone.
engineVars == << cur, schedIdx, wall, simNow, races, eng, callsLeft >>
runHistVars ==
    << prevPop, lastPop, delivered, dataLog, resultsEnq, resultsDel, reqLog, onBetLog,
       openReq, tickBetween, fired >>

\* A portfolio and a repository of either variant, no engine.
InitRepo ==
    /\ pc = "repo"
    /\ cur = EvBase
    /\ schedIdx = 0
    /\ clockKind = "sim"
    /\ tickInterval = TickInterval
    /\ firstRun = NoFirstRun
    /\ dataRepo = SimDataRepo
    /\ payCall = NoPayCall
    /\ wall = 0
    /\ simNow = NoTime
    /\ raceDate \in RaceDates
    /\ payoffDelay \in PayoffDelays
    /\ races = << >>
    /\ eng = EngineInit
    /\ \E k \in {"sim", "live"} : rp = RepoCreate(k)
    /\ \E b \in Bankrolls : pf = PortfolioCreate(b)
    /\ error = ""
    /\ callsLeft = 0
    /\ prevPop = NoTime
    /\ lastPop = NoTime
    /\ delivered = {}
    /\ dataLog = << >>
    /\ resultsEnq = [r \in RaceIds |-> 0]
    /\ resultsDel = [r \in RaceIds |-> 0]
    /\ reqLog = << >>
    /\ onBetLog = << >>
    /\ openReq = NoTime
    /\ tickBetween = FALSE
    /\ lastConf = EvBase
    /\ calls = 0
    /\ qlog = << >>
    /\ qpops = << >>
    /\ fired = << >>

\* betting_repository.place_bet(...)
CallPlaceBet(race_id, combination, stake, placed_at) ==
    /\ calls < MaxRepoCalls
    /\ LET r == RepoPlaceBet(rp, pf, race_id, combination, stake, "win", placed_at)
       IN  /\ rp' = r.rp
           /\ lastConf' = r.conf
    /\ pc' = "place_bet"
    /\ error' = ""
    /\ calls' = calls + 1
    /\ UNCHANGED << pf, qlog, qpops >>
    /\ UNCHANGED << dataVars, engineVars, runHistVars >>

\* betting_repository.confirm_bet(event) with the event of a pending bet.
CallConfirmBet(bet_id) ==
    /\ calls < MaxRepoCalls
    /\ bet_id \in DOMAIN rp.pending_confirmations
    /\ LET p == rp.pending_confirmations[bet_id]
           c == RepoConfirmBet(rp, pf,
                    BetConfirmationEvent(bet_id, p.race_id, p.bet_type, p.combination,
                                         p.stake, p.placed_at, TRUE, ""))
       IN  /\ rp' = c.rp
           /\ pf' = c.pf
           /\ error' = c.err
    /\ cur' = [EvBase EXCEPT !.type = "confirmation", !.bet_id = bet_id]
    /\ pc' = "confirm_bet"
    /\ calls' = calls + 1
    /\ UNCHANGED << lastConf, qlog, qpops >>
    /\ UNCHANGED << schedIdx, wall, simNow, races, eng, callsLeft >>
    /\ UNCHANGED << dataVars, runHistVars >>

\* betting_repository.confirm_bet(event) with an event whose bet_id is not
\* pending: one confirmed before, or one never issued.
CallConfirmStale(bet_id) ==
    /\ calls < MaxRepoCalls
    /\ bet_id \notin DOMAIN rp.pending_confirmations
    /\ \E r \in Races, cb \in Combinations, st \in {x \in Stakes : x > 0} :
       \E c \in {RepoConfirmBet(rp, pf, BetConfirmationEvent(bet_id, r, "win", cb, st, 0, TRUE, ""))} :
          /\ rp' = c.rp
          /\ pf' = c.pf
          /\ error' = c.err
    /\ cur' = [EvBase EXCEPT !.type = "confirmation", !.bet_id = bet_id]
    /\ pc' = "confirm_bet"
    /\ calls' = calls + 1
    /\ UNCHANGED << lastConf, qlog, qpops >>
    /\ UNCHANGED << schedIdx, wall, simNow, races, eng, callsLeft >>
    /\ UNCHANGED << dataVars, runHistVars >>

\* betting_repository.settle_race(race_id)
CallSettleRace(race_id) ==
    /\ calls < MaxRepoCalls
    /\ LET s == RepoSettleRace(rp, pf, race_id)
       IN  /\ rp' = s.rp
           /\ pf' = s.pf
           /\ error' = s.err
    /\ pc' = "settle_race"
    /\ calls' = calls + 1
    /\ UNCHANGED << lastConf, qlog, qpops >>
    /\ UNCHANGED << dataVars, engineVars, runHistVars >>

NextRepo ==
    \/ \E r \in Races, c \in Combinations, st \in Stakes, pa \in PlacedAts \ {NoTime} :
          CallPlaceBet(r, c, st, pa)
    \/ \E b \in DOMAIN rp.pending_confirmations : CallConfirmBet(b)
    \/ \E b \in FirstBetId..rp.counter : CallConfirmStale(b)
    \/ \E r \in Races : CallSettleRace(r)

SpecRepo == InitRepo /\ [][NextRepo]_vars

PendingStakes(r) == SumStakes(r.pending_confirmations, DOMAIN r.pending_confirmations)

\* C7: place_bet returns accepted = false with a non-empty message, and
\* records nothing, exactly when stake <= 0 or stake > cash minus the stakes
\* of the pending bets; otherwise it returns accepted = true and records
\* exactly one pending bet with the request's fields; the stakes of the
\* pending bets never exceed cash together.
C7_PlaceBetDecision ==
    [][ pc' = "place_bet" =>
          LET ev == lastConf'
              rejected == ev.stake <= 0 \/ ev.stake > pf.cash - PendingStakes(rp)
              before == DOMAIN rp.pending_confirmations
              after == DOMAIN rp'.pending_confirmations
          IN  /\ ev.type = "confirmation"
              /\ ev.accepted = ~rejected
              /\ rejected => (ev.message # "" /\ rp'.pending_confirmations = rp.pending_confirmations)
              /\ ~rejected =>
                    /\ after = before \cup {ev.bet_id}
                    /\ ev.bet_id \notin before
                    /\ \A b \in before : rp'.pending_confirmations[b] = rp.pending_confirmations[b]
                    /\ rp'.pending_confirmations[ev.bet_id] =
                           PendingBet(ev.bet_id, ev.race_id, ev.bet_type, ev.combination,
                                      ev.stake, ev.at)
              /\ PendingStakes(rp') <= pf'.cash
      ]_vars

\* C7 witness: a bet is pending and a second request has just been rejected
\* for exceeding what it leaves available, though it is within cash.
C7_Witness ==
    /\ pc = "place_bet"
    /\ Cardinality(DOMAIN rp.pending_confirmations) = 1
    /\ ~lastConf.accepted
    /\ lastConf.stake > 0 /\ lastConf.stake <= pf.cash

(* ------------------------ the queue on its own ------------------------- *)

\* The three ways the engine inserts: a regular event and a TimeEvent through
\* _enqueue, a confirmation through _enqueue_front.
Channels == {"regular", "tick", "front"}

\* The event a channel inserts, every one at slot 1; bet_id carries the
\* insertion number.
QueueEvent(channel, n) ==
    CASE channel = "tick" -> [TimeEvent(1) EXCEPT !.bet_id = n]
      [] channel = "front" ->
            BetConfirmationEvent(n, "R1", "win", <<"H1">>, 2, 1, TRUE, "")
      [] OTHER -> [DataEvent("race", "R1", 1) EXCEPT !.bet_id = n]

\* An engine with an empty queue and fresh counters.
InitQueue ==
    /\ pc = "inserting"
    /\ cur = EvBase
    /\ schedIdx = 0
    /\ clockKind = "sim"
    /\ tickInterval = TickInterval
    /\ firstRun = NoFirstRun
    /\ dataRepo = SimDataRepo
    /\ payCall = NoPayCall
    /\ wall = 0
    /\ simNow = NoTime
    /\ raceDate \in RaceDates
    /\ payoffDelay \in PayoffDelays
    /\ races = << >>
    /\ eng = EngineInit
    /\ rp = RepoCreate("sim")
    /\ \E b \in Bankrolls : pf = PortfolioCreate(b)
    /\ error = ""
    /\ callsLeft = 0
    /\ prevPop = NoTime
    /\ lastPop = NoTime
    /\ delivered = {}
    /\ dataLog = << >>
    /\ resultsEnq = [r \in RaceIds |-> 0]
    /\ resultsDel = [r \in RaceIds |-> 0]
    /\ reqLog = << >>
    /\ onBetLog = << >>
    /\ openReq = NoTime
    /\ tickBetween = FALSE
    /\ lastConf = EvBase
    /\ calls = 0
    /\ qlog = << >>
    /\ qpops = << >>
    /\ fired = << >>

queueFrame ==
    << cur, schedIdx, wall, simNow, races, rp, pf, error, callsLeft, lastConf >>

\* One insertion: _enqueue(event) or _enqueue_front(event).
QueueInsert(channel) ==
    /\ pc = "inserting"
    /\ calls < MaxInserts
    /\ LET n == calls + 1
           event == QueueEvent(channel, n)
       IN  /\ eng' = IF channel = "front" THEN EnqueueFront(eng, event)
                     ELSE Enqueue(eng, event)
           /\ qlog' = Append(qlog, channel)
    /\ calls' = calls + 1
    /\ UNCHANGED << pc, qpops >>
    /\ UNCHANGED << dataVars, queueFrame, runHistVars >>

\* heapq.heappop; the first pop ends the insertions.
QueuePop ==
    /\ pc \in {"inserting", "popping"}
    /\ eng.queue # {}
    /\ eng' = Popped
    /\ qpops' = Append(qpops, Top.ev.bet_id)
    /\ pc' = "popping"
    /\ UNCHANGED << calls, qlog >>
    /\ UNCHANGED << dataVars, queueFrame, runHistVars >>

NextQueue ==
    \/ \E ch \in Channels : QueueInsert(ch)
    \/ QueuePop

SpecQueue == InitQueue /\ [][NextQueue]_vars

\* C9 as stated: among the events popped, front-inserted events come first,
\* latest insertion first, then ticks, then regular events, earliest
\* insertion first.
C9_ThreeTiers ==
    LET Tier(n) == CASE qlog[n] = "front" -> 0 [] qlog[n] = "tick" -> 1 [] OTHER -> 2
    IN  \A i, j \in 1..Len(qpops) :
            i < j =>
                /\ Tier(qpops[i]) <= Tier(qpops[j])
                /\ (qlog[qpops[i]] = "front" /\ qlog[qpops[j]] = "front")
                       => qpops[i] > qpops[j]
                /\ (qlog[qpops[i]] = "regular" /\ qlog[qpops[j]] = "regular")
                       => qpops[i] < qpops[j]

\* C9 amended: front-inserted events and ticks draw from one counter, so
\* among the events popped they come first as one tier, latest insertion
\* first whichever of the two kinds, followed by the regular events, earliest
\* insertion first.
C9_TwoTiers ==
    LET Early(n) == qlog[n] \in {"front", "tick"}
    IN  \A i, j \in 1..Len(qpops) :
            i < j =>
                /\ Early(qpops[j]) => Early(qpops[i])
                /\ (Early(qpops[i]) /\ Early(qpops[j])) => qpops[i] > qpops[j]
                /\ (~Early(qpops[i]) /\ ~Early(qpops[j])) => qpops[i] < qpops[j]

\* C9 witness: everything was popped after a front insertion, a regular
\* event, a tick and a second regular event.
C9_Witness ==
    /\ pc = "popping"
    /\ eng.queue = {}
    /\ qlog = <<"front", "regular", "tick", "regular">>
    /\ qpops = <<3, 1, 2, 4>>

(* ----------------------- claims on the timeline ------------------------ *)

\* The loop is pumping events: the timeline end of the run is in force.
Pumping == pc \notin {"ctor", "on_start", "done", "failed"}

\* The timeline end as the claim defines it, from the catalogue and the
\* registered schedules.
StatedTimelineEnd ==
    LET last == SetMax({raceDate[r] : r \in DOMAIN raceDate})
        rel == {eng.schedules[i].offset : i \in
                   {k \in 1..Len(eng.schedules) : eng.schedules[k].mode = "relative"}}
        pos == {d \in rel : d > 0} \cup {0}
    IN  SetMax({last + SetMax(pos), last + payoffDelay, last + Day})

\* C15: while the loop pumps, the timeline end is the stated maximum, no
\* TimeEvent enqueued or being handled lies beyond it, no schedule entry is
\* due beyond it and no callback was invoked at a clock time beyond it.
C15_NothingBeyondTimelineEnd ==
    Pumping =>
        /\ eng.timeline_end = StatedTimelineEnd
        /\ \A q \in eng.queue : q.ev.type = "time" => q.when <= eng.timeline_end
        /\ pc \in {"on_time", "due", "callback"} => cur.at <= eng.timeline_end
        /\ \A i \in 1..Len(eng.schedules) :
              eng.schedules[i].next_due # NoTime
              => eng.schedules[i].next_due <= eng.timeline_end
        /\ \A i \in 1..Len(fired) : fired[i].at <= eng.timeline_end

(* ------------------------- scheduling runs ----------------------------- *)

\* Latest slot of a race in the scheduling runs.
MaxSchedDate == 4

\* Catalogues of the scheduling runs: two races anywhere in the first days,
\* or three races at 00:00 on consecutive days.
SchedRaceDates ==
    [Races -> 1..MaxSchedDate] \cup {[r \in RaceIds |-> Day * RaceIndex(r)]}

\* Schedules of the three modes; the cron expressions are "m * * * *"-like
\* (one slot of the day) and "* * * * *" (every slot).
SchedEntries ==
    {ScheduleEntry("absolute", t, 0, NoTime) : t \in 0..(Day - 1)}
    \cup {ScheduleEntry("relative", NoTime, d, NoTime) : d \in Offsets}
    \cup {ScheduleEntry("cron", NoTime, 0, m) : m \in CronMinutes \cup {NoTime}}

\* The tick intervals of the scheduling runs: up to one cron slot (the
\* default of one second is below it) and two cron slots.
TickIntervals == {TickInterval, 2 * TickInterval}

\* A simulation engine whose strategy only registers schedules, before the
\* run or in on_start.
InitSched ==
    /\ pc = "ctor"
    /\ cur = EvBase
    /\ schedIdx = 0
    /\ clockKind = "sim"
    /\ tickInterval \in TickIntervals
    /\ firstRun = NoFirstRun
    /\ dataRepo = SimDataRepo
    /\ payCall = NoPayCall
    /\ wall = 0
    /\ simNow = NoTime
    /\ raceDate \in SchedRaceDates
    /\ payoffDelay \in PayoffDelays
    /\ races = << >>
    /\ eng = EngineInit
    /\ rp = RepoCreate("sim")
    /\ \E b \in Bankrolls : pf = PortfolioCreate(b)
    /\ error = ""
    /\ callsLeft = MaxCalls
    /\ prevPop = NoTime
    /\ lastPop = NoTime
    /\ delivered = {}
    /\ dataLog = << >>
    /\ resultsEnq = [r \in RaceIds |-> 0]
    /\ resultsDel = [r \in RaceIds |-> 0]
    /\ reqLog = << >>
    /\ onBetLog = << >>
    /\ openReq = NoTime
    /\ tickBetween = FALSE
    /\ lastConf = EvBase
    /\ calls = 0
    /\ qlog = << >>
    /\ qpops = << >>
    /\ fired = << >>

NextSched ==
    \/ \E e \in SchedEntries : PreSchedule(e)
    \/ \E w \in WallReads : Run(w)
    \/ \E e \in SchedEntries : pc = "on_start" /\ StratSchedule(e)
    \/ ReturnOnStart
    \/ PopTime
    \/ ReturnOnTime
    \/ DueInvoke
    \/ ReturnCallback
    \/ DueSkip
    \/ \E w \in WallReads : DueDone(w)
    \/ PopData
    \/ ReturnOnData
    \/ Finish

SpecSched == InitSched /\ [][NextSched]_vars

\* The clock times at which entry i was invoked, in order.
RECURSIVE FiredFrom(_, _)
FiredFrom(i, k) ==
    IF k > Len(fired) THEN << >>
    ELSE IF fired[k].entry = i THEN <<fired[k].at>> \o FiredFrom(i, k + 1)
    ELSE FiredFrom(i, k + 1)
FiredAt(i) == FiredFrom(i, 1)

\* The members of a set of instants in ascending order, an instant that
\* several races yield appearing once per race.
RECURSIVE Ascending(_)
Ascending(B) ==
    IF B = {} THEN << >>
    ELSE LET x == CHOOSE y \in B : \A z \in B : y[1] <= z[1]
         IN  <<x[1]>> \o Ascending(B \ {x})

RunStart == SetMin({raceDate[r] : r \in DOMAIN raceDate})

\* The instants race.scheduled_at + d within [run_start, timeline_end], one
\* per race, in chronological order.
RelativeTargets(d) ==
    Ascending({<<raceDate[r] + d, r>> : r \in {q \in DOMAIN raceDate : RunStart <= raceDate[q] + d /\ raceDate[q] + d <= StatedTimelineEnd}})

\* C11: a relative schedule with offset d registered before pumping has, when
\* the run ends, been invoked exactly once at race.scheduled_at + d for every
\* race whose race.scheduled_at + d lies within [run_start, timeline_end], in
\* chronological order and at no other instant; two races sharing a start
\* time give two invocations at that instant.
C11_RelativeFiresPerRace ==
    pc = "done" =>
        \A i \in 1..Len(eng.schedules) :
            eng.schedules[i].mode = "relative" =>
                FiredAt(i) = RelativeTargets(eng.schedules[i].offset)

\* A finished run in which two races shared a start time and a relative
\* schedule was invoked twice at the shared instant plus its offset, while a
\* target before run_start was skipped by another relative schedule.
C11_Witness ==
    /\ pc = "done"
    /\ \E r1, r2 \in DOMAIN raceDate : r1 # r2 /\ raceDate[r1] = raceDate[r2]
    /\ \E i \in 1..Len(eng.schedules) :
        /\ eng.schedules[i].mode = "relative"
        /\ Len(FiredAt(i)) = 2
        /\ FiredAt(i)[1] = FiredAt(i)[2]
    /\ \E i \in 1..Len(eng.schedules) :
        /\ eng.schedules[i].mode = "relative"
        /\ eng.schedules[i].offset < 0
        /\ FiredAt(i) = << >>

\* The instants within [run_start, timeline_end] whose time of day is t, in
\* chronological order.
AbsoluteTargets(t) ==
    Ascending({<<x, 0>> : x \in {y \in RunStart..StatedTimelineEnd : y % Day = t}})

\* C12: an absolute schedule with time of day t fires first at the earliest
\* instant at or after run_start whose time of day is t (run_start itself
\* when it matches); after each firing its next activation is strictly later
\* than the firing instant; it fires once per day and never twice at the
\* same instant.
C12_AbsoluteOncePerDay ==
    \A i \in 1..Len(eng.schedules) :
        eng.schedules[i].mode = "absolute" =>
            LET f == FiredAt(i)
                first == SetMin({x \in RunStart..(RunStart + Day) : x % Day = eng.schedules[i].time_of_day})
            IN  /\ Len(f) > 0 => f[1] = first
                /\ \A k \in 1..(Len(f) - 1) : f[k + 1] = f[k] + Day
                /\ (Len(f) > 0 /\ pc # "callback" /\ eng.schedules[i].next_due # NoTime) => eng.schedules[i].next_due > f[Len(f)]
                /\ pc = "done" => f = AbsoluteTargets(eng.schedules[i].time_of_day)

\* A finished run in which an absolute schedule whose time of day is that of
\* run_start fired at run_start and again on a later day.
C12_Witness ==
    /\ pc = "done"
    /\ \E i \in 1..Len(eng.schedules) :
        /\ eng.schedules[i].mode = "absolute"
        /\ Len(FiredAt(i)) >= 2
        /\ FiredAt(i)[1] = RunStart

\* The instants within [run_start, timeline_end] that match a cron
\* expression, in chronological order.
CronTargets(expr) ==
    Ascending({<<x, 0>> : x \in {y \in RunStart..StatedTimelineEnd : CronMatches(expr, y)}})

\* C13: a cron schedule registered in on_start has, when the run ends, fired
\* exactly once at each instant within [run_start, timeline_end] that matches
\* its expression, run_start included, timeline_end including the one-day
\* tail; with two races at 00:00 on consecutive days and "0 0 * * *" these are
\* the three instants day 1, day 2 and day 3 at 00:00.
C13_CronFiresAtMatches ==
    pc = "done" =>
        \A i \in 1..Len(eng.schedules) :
            eng.schedules[i].mode = "cron" =>
                /\ FiredAt(i) = CronTargets(eng.schedules[i].cron)
                /\ (raceDate = [r \in Races |-> Day * RaceIndex(r)] /\ eng.schedules[i].cron = 0) => FiredAt(i) = <<Day, 2 * Day, 3 * Day>>

\* Scenario S5: three races at 00:00 on consecutive days, the default tick
\* interval, and a finished run.
ScenarioS5 ==
    /\ pc = "done"
    /\ raceDate = [r \in RaceIds |-> Day * RaceIndex(r)]
    /\ tickInterval = TickInterval

\* C14: in scenario S5 a cron schedule "0 0 * * *" is invoked exactly three
\* times, at 00:00 of the three race days, and the simulated clock reads
\* 00:00 of the third race day when the run ends.
C14_ThreeInvocations ==
    ScenarioS5 =>
        \A i \in 1..Len(eng.schedules) :
            (eng.schedules[i].mode = "cron" /\ eng.schedules[i].cron = 0) =>
                /\ FiredAt(i) = <<Day, 2 * Day, 3 * Day>>
                /\ simNow = 3 * Day

\* C14 as the code has it: the callback is invoked four times, the fourth
\* time at 00:00 of the day after the last race (timeline_end), where the
\* simulated clock stands when the run ends.
C14_FourInvocations ==
    ScenarioS5 =>
        \A i \in 1..Len(eng.schedules) :
            (eng.schedules[i].mode = "cron" /\ eng.schedules[i].cron = 0) =>
                /\ FiredAt(i) = <<Day, 2 * Day, 3 * Day, 4 * Day>>
                /\ simNow = 4 * Day

\* Scenario S5 finished with the cron schedule "0 0 * * *" as the only
\* schedule, invoked last at the day after the last race.
C14_Witness ==
    /\ ScenarioS5
    /\ Len(eng.schedules) = 1
    /\ eng.schedules[1].mode = "cron"
    /\ eng.schedules[1].cron = 0
    /\ Len(fired) = 4
    /\ fired[4].at = 4 * Day

(* ------------------- simulated runs that keep going -------------------- *)

\* The runs under the simulated clock, with either betting repository.
InitSim == Init /\ clockKind = "sim"

\* Engine.run is one sequential loop: as long as some step of the run can be
\* taken, one is taken.
SpecSimFair == InitSim /\ [][Next]_vars /\ WF_vars(Next)

\* C16: under the simulated clock, with a finite catalogue and a strategy
\* that makes finitely many place_bet and schedule calls (schedules of all
\* three modes), the queue eventually becomes empty and run() returns; no
\* schedule is invoked past timeline_end, so absolute and cron schedules
\* do not keep the run alive.
C16_RunReturns ==
    /\ <>(pc = "done" /\ eng.queue = {} /\ error = "")
    /\ [](\A i \in 1..Len(fired) : fired[i].at <= StatedTimelineEnd)

\* A returned simulated run in which a bet was requested and an absolute or
\* cron schedule was invoked at timeline_end.
C16_Witness ==
    /\ pc = "done"
    /\ clockKind = "sim"
    /\ Len(reqLog) > 0
    /\ \E i \in 1..Len(eng.schedules) :
        /\ eng.schedules[i].mode \in {"absolute", "cron"}
        /\ Len(FiredAt(i)) >= 2
        /\ FiredAt(i)[Len(FiredAt(i))] = StatedTimelineEnd

(* ----------------------- claims on positions --------------------------- *)

\* The positions that a step settles, and those it records.
NewlySettled == {i \in DOMAIN pf'.positions : pf'.positions[i].status = "settled" /\ (i \in DOMAIN pf.positions => pf.positions[i].status # "settled")}
NewlyRecorded == DOMAIN pf'.positions \ DOMAIN pf.positions

\* C17: in a run, a step changes a position's status only from open to
\* settled, with payout >= 0; a settled position is never changed again, a
\* payout changes only with that status change, and cash grows only by the
\* payouts of the positions the step settles (and shrinks by the stakes of
\* those it records), so no payout is credited twice.
C17_SettledOnce ==
    [][/\ \A i \in DOMAIN pf.positions :
            /\ i \in DOMAIN pf'.positions
            /\ pf.positions[i].status = "settled" => pf'.positions[i] = pf.positions[i]
            /\ pf'.positions[i].status # pf.positions[i].status =>
                   /\ pf.positions[i].status = "open"
                   /\ pf'.positions[i].status = "settled"
            /\ pf'.positions[i].status = pf.positions[i].status =>
                   pf'.positions[i].payout = pf.positions[i].payout
       /\ \A i \in NewlySettled : pf'.positions[i].payout >= 0
       /\ pf'.cash = pf.cash + SumStakes(pf'.positions, NewlySettled)
                             - SumLosses(pf'.positions, NewlySettled)
                             - SumStakes(pf'.positions, NewlyRecorded)]_vars

\* Two positions were settled at different times, the earlier one at a
\* profit, and the run went on to its end.
C17_Witness ==
    /\ pc = "done"
    /\ \E i, j \in settled_positions(pf) :
        /\ i # j
        /\ pf.positions[i].payout > pf.positions[i].stake
        /\ pf.positions[j].payout = 0
        /\ pf.positions[i].race_id # pf.positions[j].race_id

(* ------------------------ the portfolio alone -------------------------- *)

\* Arguments of direct calls of the portfolio.
PortfolioBetIds == {FirstBetId, FirstBetId + 1}
PortfolioStakes == Stakes \cup {-2}
PortfolioPayouts == {0, 3}

\* A fresh portfolio, no repository call and no engine.
InitPortfolio ==
    /\ pc = "portfolio"
    /\ cur = EvBase
    /\ schedIdx = 0
    /\ clockKind = "sim"
    /\ tickInterval = TickInterval
    /\ firstRun = NoFirstRun
    /\ dataRepo = SimDataRepo
    /\ payCall = NoPayCall
    /\ wall = 0
    /\ simNow = NoTime
    /\ raceDate \in RaceDates
    /\ payoffDelay \in PayoffDelays
    /\ races = << >>
    /\ eng = EngineInit
    /\ rp = RepoCreate("sim")
    /\ \E b \in Bankrolls : pf = PortfolioCreate(b)
    /\ error = ""
    /\ callsLeft = 0
    /\ prevPop = NoTime
    /\ lastPop = NoTime
    /\ delivered = {}
    /\ dataLog = << >>
    /\ resultsEnq = [r \in RaceIds |-> 0]
    /\ resultsDel = [r \in RaceIds |-> 0]
    /\ reqLog = << >>
    /\ onBetLog = << >>
    /\ openReq = NoTime
    /\ tickBetween = FALSE
    /\ lastConf = EvBase
    /\ calls = 0
    /\ qlog = << >>
    /\ qpops = << >>
    /\ fired = << >>

portfolioFrame ==
    << schedIdx, wall, simNow, races, eng, rp, callsLeft, lastConf, qlog, qpops >>

\* portfolio.place_bet(bet_id=..., race_id=..., bet_type="win", ...); cur
\* keeps the arguments of the call.
CallPortfolioPlaceBet(bet_id, race_id, combination, stake) ==
    /\ calls < MaxRepoCalls
    /\ \E r \in {PortfolioPlaceBet(pf, bet_id, race_id, "win", combination, stake, 0)} :
          /\ pf' = r.pf
          /\ error' = r.err
    /\ cur' = [bet_id |-> bet_id, race_id |-> race_id, combination |-> combination,
               stake |-> stake]
    /\ pc' = "Portfolio.place_bet"
    /\ calls' = calls + 1
    /\ UNCHANGED << dataVars, portfolioFrame, runHistVars >>

\* portfolio.settle_bet(bet_id, payout)
CallPortfolioSettleBet(bet_id, payout) ==
    /\ calls < MaxRepoCalls
    /\ \E r \in {PortfolioSettleBet(pf, bet_id, payout)} :
          /\ pf' = r.pf
          /\ error' = r.err
    /\ cur' = [bet_id |-> bet_id, payout |-> payout]
    /\ pc' = "Portfolio.settle_bet"
    /\ calls' = calls + 1
    /\ UNCHANGED << dataVars, portfolioFrame, runHistVars >>

NextPortfolio ==
    \/ \E b \in PortfolioBetIds, r \in Races, c \in Combinations, st \in PortfolioStakes :
          CallPortfolioPlaceBet(b, r, c, st)
    \/ \E b \in PortfolioBetIds, p \in PortfolioPayouts : CallPortfolioSettleBet(b, p)

SpecPortfolio == InitPortfolio /\ [][NextPortfolio]_vars

\* C18: Portfolio.place_bet fails with InvalidStake when stake <= 0 and with
\* InsufficientCash when stake > cash, leaving cash and positions unchanged
\* in both cases; on success cash decreases by exactly stake and one position
\* with status open, holding the call's fields, is recorded under bet_id,
\* the other positions staying as they were.
C18_PlaceBetContract ==
    [][ pc' = "Portfolio.place_bet" =>
          LET a == cur'
          IN  /\ a.stake <= 0 => (error' = "InvalidStake" /\ pf' = pf)
              /\ (a.stake > 0 /\ a.stake > pf.cash) => (error' = "InsufficientCash" /\ pf' = pf)
              /\ (a.stake > 0 /\ a.stake <= pf.cash) =>
                    /\ error' = ""
                    /\ pf'.cash = pf.cash - a.stake
                    /\ pf'.initial_bankroll = pf.initial_bankroll
                    /\ DOMAIN pf'.positions = DOMAIN pf.positions \cup {a.bet_id}
                    /\ pf'.positions[a.bet_id] = BetPosition(a.bet_id, a.race_id, "win", a.combination, a.stake, 0)
                    /\ pf'.positions[a.bet_id].status = "open"
                    /\ \A b \in DOMAIN pf.positions \ {a.bet_id} : pf'.positions[b] = pf.positions[b]
      ]_vars

\* place_bet has just refused a stake above cash while an earlier call's
\* position is open.
C18_Witness ==
    /\ pc = "Portfolio.place_bet"
    /\ error = "InsufficientCash"
    /\ cur.stake > pf.cash
    /\ open_positions(pf) # {}
    /\ pf.cash < pf.initial_bankroll

\* C19: Portfolio.settle_bet fails with UnknownBet for a bet_id that has no
\* position and with AlreadySettled for a position whose status is not open,
\* leaving cash and every position unchanged; on success cash increases by
\* exactly payout, the status becomes settled and the payout is stored, the
\* other positions staying as they were.
C19_SettleBetContract ==
    [][ pc' = "Portfolio.settle_bet" =>
          LET a == cur'
              known == a.bet_id \in DOMAIN pf.positions
          IN  /\ ~known => (error' = "UnknownBet" /\ pf' = pf)
              /\ (known /\ pf.positions[a.bet_id].status # "open") => (error' = "AlreadySettled" /\ pf' = pf)
              /\ (known /\ pf.positions[a.bet_id].status = "open") =>
                    /\ error' = ""
                    /\ pf'.cash = pf.cash + a.payout
                    /\ pf'.initial_bankroll = pf.initial_bankroll
                    /\ pf'.positions = [pf.positions EXCEPT ![a.bet_id].status = "settled", ![a.bet_id].payout = a.payout]
      ]_vars

\* settle_bet has just refused a second settlement of a position that was
\* settled with a payout, and cash holds that payout once.
C19_Witness ==
    /\ pc = "Portfolio.settle_bet"
    /\ error = "AlreadySettled"
    /\ cur.bet_id \in settled_positions(pf)
    /\ pf.positions[cur.bet_id].payout > 0
    /\ pf.cash = pf.initial_bankroll - pf.positions[cur.bet_id].stake + pf.positions[cur.bet_id].payout

(* ------------------------ claims on confirm_bet ------------------------ *)

\* C20: confirm_bet on an event whose bet_id has a pending entry removes that
\* entry and records a portfolio position with the pending bet's fields, cash
\* reduced by its stake; confirm_bet on an event with no matching pending
\* entry (a second confirmation of the same event included) fails with
\* UnknownPendingBet and leaves cash, positions and pending bets unchanged.
C20_ConfirmBetContract ==
    [][ pc' = "confirm_bet" =>
          LET id == cur'.bet_id
              before == rp.pending_confirmations
              after == rp'.pending_confirmations
          IN  /\ id \in DOMAIN before =>
                    /\ error' = ""
                    /\ DOMAIN after = DOMAIN before \ {id}
                    /\ \A b \in DOMAIN after : after[b] = before[b]
                    /\ pf'.cash = pf.cash - before[id].stake
                    /\ DOMAIN pf'.positions = DOMAIN pf.positions \cup {id}
                    /\ \A b \in DOMAIN pf.positions \ {id} : pf'.positions[b] = pf.positions[b]
                    /\ \A f \in {"bet_id", "race_id", "bet_type", "combination", "stake", "placed_at"} : pf'.positions[id][f] = before[id][f]
              /\ id \notin DOMAIN before =>
                    /\ error' = "UnknownPendingBet"
                    /\ pf' = pf
                    /\ rp' = rp
      ]_vars

\* The same event has just been confirmed a second time and refused, its
\* position standing as the first confirmation recorded it.
C20_Witness ==
    /\ pc = "confirm_bet"
    /\ error = "UnknownPendingBet"
    /\ cur.bet_id \in DOMAIN pf.positions
    /\ pf.cash = pf.initial_bankroll - pf.positions[cur.bet_id].stake

(* ----------------------- claims on the live variant -------------------- *)

\* C21: in an engine run on the live betting repository no ResultEvent is
\* ever enqueued or delivered, every recorded position has status submitted
\* (none is ever settled), and cash never increases.
C21_LiveNeverSettles ==
    /\ [](rp.kind = "live" =>
            /\ \A r \in RaceIds : resultsEnq[r] = 0 /\ resultsDel[r] = 0
            /\ \A q \in eng.queue : q.ev.type # "result"
            /\ \A i \in DOMAIN pf.positions : pf.positions[i].status = "submitted"
            /\ pf.cash <= pf.initial_bankroll)
    /\ [][rp.kind = "live" => pf'.cash <= pf.cash]_vars

\* A finished live run: a position was submitted on a race whose payoff
\* DataEvent was delivered, and the stake is still out of cash.
C21_Witness ==
    /\ pc = "done"
    /\ rp.kind = "live"
    /\ \E i \in DOMAIN pf.positions :
        /\ pf.positions[i].race_id \in delivered
        /\ pf.positions[i].status = "submitted"
        /\ pf.cash = pf.initial_bankroll - pf.positions[i].stake

(* ----------------------- claims on the clock --------------------------- *)

\* C22: under the simulated clock, handling an event sets the clock to the
\* maximum of its current time and the event's timestamp, and after the
\* reset at the start of the run no step makes now() decrease.
C22_ClockMonotonic ==
    [][clockKind = "sim" =>
          /\ (pc = "idle" /\ eng.queue # {}) => simNow' = Max(simNow, Top.when)
          /\ simNow # NoTime => simNow' >= simNow]_vars

\* An event stamped earlier than the event before it has been handled, and
\* the simulated clock stayed at the later time.
C22_Witness ==
    /\ clockKind = "sim"
    /\ prevPop # NoTime
    /\ lastPop < prevPop
    /\ simNow >= prevPop

(* ------------------------ registering schedules ------------------------ *)

\* The cron field of an entry whose expression croniter will refuse.
MalformedCron == -2

\* The mode inputs of Engine.schedule; an absent input (None) is << >>, a
\* given one a one-element sequence.
WhenInputs == {<< >>, <<"00:00">>, <<"12:00">>, <<"25:61">>}
RelativeInputs == {<< >>} \cup {<<d>> : d \in Offsets}
CronInputs == {<< >>, <<"0 0 * * *">>, <<"* * * * *">>, <<"0 0 * *">>}

\* time.fromisoformat on the strings above: the slot of the day, or a
\* ValueError.
TimeParses(v) == v \in {"00:00", "12:00"}
parse_time_input(v) == IF v = "00:00" THEN 0 ELSE 1

\* What croniter makes of the expressions above: the slot of the day that
\* matches, every slot, or a ValueError.
CronParses(expr) == expr \in {"0 0 * * *", "* * * * *"}
cron_field(expr) ==
    IF expr = "0 0 * * *" THEN 0 ELSE IF expr = "* * * * *" THEN NoTime ELSE MalformedCron

\* Engine.schedule from its raw inputs: the error raised, if any, and the
\* engine afterwards. The entry is appended before it is prepared, and only
\* prepare builds the cron iterator.
schedule_call(E, when, relative, cron, kind, now, dates, delay, tick) ==
    IF Len(when) + Len(relative) + Len(cron) # 1 THEN [err |-> "InvalidSchedule", E |-> E]
    ELSE IF Len(when) = 1 /\ ~TimeParses(when[1]) THEN [err |-> "InvalidSchedule", E |-> E]
    ELSE LET entry == IF Len(when) = 1
                      THEN ScheduleEntry("absolute", parse_time_input(when[1]), 0, NoTime)
                      ELSE IF Len(relative) = 1
                      THEN ScheduleEntry("relative", NoTime, relative[1], NoTime)
                      ELSE ScheduleEntry("cron", NoTime, 0, cron_field(cron[1]))
             appended == [E EXCEPT !.schedules = Append(@, entry)]
         IN  IF ~E.running THEN [err |-> "", E |-> appended]
             ELSE IF entry.mode = "cron" /\ entry.cron = MalformedCron
             THEN [err |-> "InvalidSchedule",
                   E |-> [appended EXCEPT !.timeline_end =
                              compute_timeline_end(appended, dates, delay, now)]]
             ELSE [err |-> "", E |-> engine_schedule(E, entry, kind, now, dates, delay, tick)]

\* engine.schedule(when, callback, relative_to_race_start=..., cron=...)
\* before run() or inside on_start; cur keeps the inputs.
ScheduleCall(when, relative, cron) ==
    /\ pc \in {"ctor", "on_start"}
    /\ callsLeft > 0
    /\ \E r \in {schedule_call(eng, when, relative, cron, clockKind, ClockNow(clockKind, simNow, wall), Dates, payoffDelay, tickInterval)} :
          /\ eng' = r.E
          /\ error' = r.err
    /\ cur' = [when |-> when, relative |-> relative, cron |-> cron]
    /\ callsLeft' = callsLeft - 1
    /\ UNCHANGED << pc, schedIdx, wall, simNow, races, rp, pf >>
    /\ UNCHANGED << dataVars, histVars, aloneVars >>

NextRegister ==
    \/ \E when \in WhenInputs, relative \in RelativeInputs, cron \in CronInputs :
          ScheduleCall(when, relative, cron)
    \/ \E w \in WallReads : Run(w)

SpecRegister == InitSched /\ [][NextRegister]_vars

\* The inputs of the last call are invalid: not exactly one mode input, an
\* unparsable time of day, or a malformed cron expression.
InvalidInputs(a) ==
    \/ Len(a.when) + Len(a.relative) + Len(a.cron) # 1
    \/ Len(a.when) = 1 /\ ~TimeParses(a.when[1])
    \/ Len(a.cron) = 1 /\ ~CronParses(a.cron[1])

\* C23: Engine.schedule fails with InvalidSchedule when the mode inputs are
\* not exactly one, the time of day is unparsable or the cron expression is
\* malformed, and a failed registration leaves the schedule table unchanged,
\* before a run and during a run; valid inputs are registered.
C23_InvalidScheduleRejected ==
    [][callsLeft' # callsLeft =>
          /\ InvalidInputs(cur') => (error' = "InvalidSchedule" /\ eng'.schedules = eng.schedules)
          /\ ~InvalidInputs(cur') => (error' = "" /\ Len(eng'.schedules) = Len(eng.schedules) + 1)
      ]_vars

(* -------------------- the same schedules, twice ------------------------ *)

\* A first run with its schedules registered before run() has returned; a
\* fresh engine over the same catalogue starts a second run, in which the
\* strategy registers the same schedules in on_start.
SecondEngine ==
    /\ pc = "done"
    /\ ~firstRun.recorded
    /\ Len(eng.schedules) > 0
    /\ firstRun' = [entries |-> [i \in 1..Len(eng.schedules) |-> reset_for_run(eng.schedules[i])],
                    fired |-> fired, recorded |-> TRUE]
    /\ pc' = "ctor"
    /\ eng' = EngineInit
    /\ simNow' = NoTime
    /\ races' = << >>
    /\ cur' = EvBase
    /\ schedIdx' = 0
    /\ callsLeft' = Len(eng.schedules)
    /\ fired' = << >>
    /\ prevPop' = NoTime
    /\ lastPop' = NoTime
    /\ delivered' = {}
    /\ dataLog' = << >>
    /\ UNCHANGED << clockKind, raceDate, payoffDelay, tickInterval, dataRepo, payCall, wall, rp, pf, error >>
    /\ UNCHANGED << resultsEnq, resultsDel, reqLog, onBetLog, openReq, tickBetween, lastConf >>
    /\ UNCHANGED aloneVars

NextTwice ==
    \/ \E e \in SchedEntries : ~firstRun.recorded /\ PreSchedule(e)
    \/ \E w \in WallReads : (firstRun.recorded \/ Len(eng.schedules) > 0) /\ Run(w)
    \/ firstRun.recorded /\ pc = "on_start" /\ callsLeft > 0 /\ StratSchedule(firstRun.entries[Len(eng.schedules) + 1])
    \/ (firstRun.recorded => callsLeft = 0) /\ ReturnOnStart
    \/ PopTime
    \/ ReturnOnTime
    \/ DueInvoke
    \/ ReturnCallback
    \/ DueSkip
    \/ \E w \in WallReads : DueDone(w)
    \/ PopData
    \/ ReturnOnData
    \/ Finish
    \/ SecondEngine

SpecTwice == InitSched /\ [][NextTwice]_vars

\* C24: for schedules of each mode, the callbacks of a run whose schedules
\* were registered inside on_start are invoked at the same sequence of
\* instants, the same number of times at each instant and in the same
\* order, as in the run with the same schedules registered before run().
C24_OnStartAsBeforeRun ==
    (pc = "done" /\ firstRun.recorded) =>
        /\ Len(eng.schedules) = Len(firstRun.entries)
        /\ fired = firstRun.fired

\* Both runs have finished; a relative and a cron or absolute schedule were
\* registered and invoked (more than once at one instant).
C24_Witness ==
    /\ pc = "done"
    /\ firstRun.recorded
    /\ Len(eng.schedules) = 2
    /\ eng.schedules[1].mode = "relative"
    /\ eng.schedules[2].mode # "relative"
    /\ Len(FiredAt(1)) = 2
    /\ FiredAt(1)[1] = FiredAt(1)[2]
    /\ FiredAt(2) # << >>

(* ----------------------- seeding of the data events -------------------- *)

\* Payoff publication delays of the seeding runs: timedelta values are not
\* validated, a negative delay is accepted.
SeedDelays == PayoffDelays \cup {-1}

\* Publish times registered with a live data repository
\* (register_publish_time), None where nothing was registered.
LivePublishTimes ==
    {[r \in RaceIds |-> IF r \in Races THEN t[r] ELSE NoPublishTimes[r]] :
        t \in [Races -> [race : {NoTime, 0, 2}, payoff : {NoTime, 1, 3}]]}

\* The data repositories of the seeding runs.
SeedDataRepos ==
    {SimDataRepo} \cup {[kind |-> "live", publish_times |-> t] : t \in LivePublishTimes}

\* A variant that computes the publish times whatever was registered.
PublishTimeComputed(D, race_id, date, delay, data_type) ==
    get_publish_time(date, delay, data_type)

\* DataRepository.get_publish_time of either variant, NoTime for None.
repo_get_publish_time(D, race_id, date, delay, data_type) ==
    IF D.kind = "sim" THEN get_publish_time(date, delay, data_type)
    ELSE D.publish_times[race_id][data_type]

\* The seeding loop of Engine.run over a data repository of either variant.
RECURSIVE SeedRepo(_, _, _, _, _, _, _)
SeedRepo(E, i, rs, dates, delay, D, now) ==
    IF i > Len(rs) THEN E
    ELSE LET publish_at == repo_get_publish_time(D, rs[i], dates[i], delay, "race")
             available_at == Max(IF publish_at # NoTime THEN publish_at ELSE dates[i], now)
             payoff_publish == repo_get_publish_time(D, rs[i], dates[i], delay, "payoff")
             publish_time == Max(Max(payoff_publish, available_at), now)
             with_race == Enqueue(E, DataEvent("race", rs[i], available_at))
         IN  SeedRepo(IF payoff_publish # NoTime
                      THEN Enqueue(with_race, DataEvent("payoff", rs[i], publish_time))
                      ELSE with_race,
                      i + 1, rs, dates, delay, D, now)

\* Engine._compute_timeline_end over a data repository of either variant.
TimelineEndRepo(E, rs, dates, delay, D, now) ==
    IF Len(dates) = 0 THEN now
    ELSE LET last_race_time == SetMax(Range(dates))
             offsets == {E.schedules[i].offset : i \in
                            {k \in 1..Len(E.schedules) :
                                E.schedules[k].mode = "relative"
                                /\ E.schedules[k].offset > 0}}
             max_offset == IF offsets = {} THEN 0 ELSE SetMax(offsets)
             payoff_times ==
                 {repo_get_publish_time(D, rs[i], dates[i], delay, "payoff") :
                     i \in 1..Len(dates)} \ {NoTime}
             timeline_end == IF payoff_times = {} THEN last_race_time + max_offset
                             ELSE Max(last_race_time + max_offset, SetMax(payoff_times))
         IN  Max(timeline_end, last_race_time + Day)

\* Engine.run after on_start returned, over a data repository of either
\* variant: timeline end, schedule preparation, seeding and the initial tick.
ReturnOnStartRepo ==
    /\ pc = "on_start"
    /\ LET now == ClockNow(clockKind, simNow, wall)
           tend == TimelineEndRepo(eng, races, Dates, payoffDelay, dataRepo, now)
           prepared == [eng EXCEPT
                           !.timeline_end = tend,
                           !.schedules = [i \in 1..Len(eng.schedules) |->
                               prepare(reset_for_run(eng.schedules[i]), now, Dates, tickInterval, tend)]]
           seeded == SeedRepo(prepared, 1, races, Dates, payoffDelay, dataRepo, now)
       IN  eng' = Enqueue([seeded EXCEPT !.next_tick_time = now], TimeEvent(now))
    /\ UNCHANGED wall
    /\ pc' = "idle"
    /\ UNCHANGED << cur, schedIdx, simNow, races, rp, pf, error, callsLeft >>
    /\ UNCHANGED << dataVars, histVars, aloneVars >>

\* An engine over a data repository of either variant and either clock; the
\* strategy places no bets and registers no schedules.
InitSeed ==
    /\ pc = "ctor"
    /\ cur = EvBase
    /\ schedIdx = 0
    /\ clockKind \in {"sim", "real"}
    /\ tickInterval = TickInterval
    /\ firstRun = NoFirstRun
    /\ dataRepo \in SeedDataRepos
    /\ payCall = NoPayCall
    /\ wall \in WallStarts(clockKind)
    /\ simNow = NoTime
    /\ raceDate \in RaceDates
    /\ payoffDelay \in IF dataRepo.kind = "sim" THEN SeedDelays ELSE {0}
    /\ races = << >>
    /\ eng = EngineInit
    /\ rp = RepoCreate("sim")
    /\ \E b \in Bankrolls : pf = PortfolioCreate(b)
    /\ error = ""
    /\ callsLeft = 0
    /\ prevPop = NoTime
    /\ lastPop = NoTime
    /\ delivered = {}
    /\ dataLog = << >>
    /\ resultsEnq = [r \in RaceIds |-> 0]
    /\ resultsDel = [r \in RaceIds |-> 0]
    /\ reqLog = << >>
    /\ onBetLog = << >>
    /\ openReq = NoTime
    /\ tickBetween = FALSE
    /\ lastConf = EvBase
    /\ calls = 0
    /\ qlog = << >>
    /\ qpops = << >>
    /\ fired = << >>

NextSeed ==
    \/ Run(wall)
    \/ ReturnOnStartRepo
    \/ PopTime
    \/ ReturnOnTime
    \/ \E w \in WallReads : DueDone(w)
    \/ PopData
    \/ ReturnOnData
    \/ Finish

SpecSeed == InitSeed /\ [][NextSeed]_vars

\* The clock reading when run() started: the first race under the simulated
\* clock, the wall clock of the construction under the real clock.
SeedRunStart ==
    IF clockKind = "sim" THEN RunStart
    ELSE IF wall >= LateWall THEN LateWall ELSE 0

\* Positions in dataLog of the DataEvents of a kind for a race.
DataIdx(kind, r) ==
    {i \in 1..Len(dataLog) : dataLog[i].kind = kind /\ dataLog[i].race_id = r}

\* The publish times as the data repository states them.
RacePublish(r) ==
    IF dataRepo.kind = "sim" THEN raceDate[r] ELSE dataRepo.publish_times[r].race
PayoffPublish(r) ==
    IF dataRepo.kind = "sim" THEN raceDate[r] + payoffDelay
    ELSE dataRepo.publish_times[r].payoff
RaceAvailableAt(r) ==
    Max(IF RacePublish(r) # NoTime THEN RacePublish(r) ELSE raceDate[r], SeedRunStart)

\* When the run is over: one race DataEvent per race at max(publish time or
\* scheduled_at, run_start); one payoff DataEvent iff a payoff publish time
\* exists, at max(payoff publish time, race available_at, run_start), after
\* the race DataEvent; under the simulated clock the clock read available_at
\* at each delivery.
SeededAsStated ==
    pc = "done" =>
        \A r \in Races :
            /\ Cardinality(DataIdx("race", r)) = 1
            /\ \A i \in DataIdx("race", r) : dataLog[i].at = RaceAvailableAt(r)
            /\ Cardinality(DataIdx("payoff", r)) = IF PayoffPublish(r) # NoTime THEN 1 ELSE 0
            /\ \A i \in DataIdx("payoff", r) :
                  /\ dataLog[i].at = Max(Max(PayoffPublish(r), RaceAvailableAt(r)), SeedRunStart)
                  /\ \A j \in DataIdx("race", r) : j < i
            /\ clockKind = "sim" => \A i \in 1..Len(dataLog) : dataLog[i].now = dataLog[i].at

\* C25 as stated: the deliveries are as above and, with the simulation
\* repository, the payoff DataEvent is delivered at scheduled_at + payoff_delay.
C25_PayoffAtDelay ==
    /\ SeededAsStated
    /\ (pc = "done" /\ dataRepo.kind = "sim") =>
           \A r \in Races : \A i \in DataIdx("payoff", r) :
               dataLog[i].at = raceDate[r] + payoffDelay

\* C25: the deliveries are as above and, with the simulation repository,
\* the simulated clock and a delay that is not negative, the payoff DataEvent
\* is delivered at scheduled_at + payoff_delay.
C25_SeededEvents ==
    /\ SeededAsStated
    /\ (pc = "done" /\ dataRepo.kind = "sim" /\ clockKind = "sim" /\ payoffDelay >= 0) =>
           \A r \in Races : \A i \in DataIdx("payoff", r) :
               dataLog[i].at = raceDate[r] + payoffDelay

\* A finished run over a live repository: one race has no payoff publish
\* time, the other one's payoff was published before its race data and is
\* delivered right after the race DataEvent, at the same instant.
C25_Witness ==
    /\ pc = "done"
    /\ dataRepo.kind = "live"
    /\ PayoffPublish("R1") = NoTime
    /\ DataIdx("payoff", "R1") = {}
    /\ PayoffPublish("R2") # NoTime
    /\ PayoffPublish("R2") < RaceAvailableAt("R2")
    /\ \E i \in DataIdx("payoff", "R2") : dataLog[i].at = RaceAvailableAt("R2")

(* ------------------------- the end of a run ---------------------------- *)

\* C26: when a run over the simulation betting repository has completed,
\* every position recorded in the portfolio is settled, no accepted bet is
\* waiting for its confirmation, none is tracked for a later settlement, and
\* every accepted confirmation passed to on_bet has its position.
C26_AllSettledAtEnd ==
    (pc = "done" /\ rp.kind = "sim") =>
        /\ \A i \in DOMAIN pf.positions : pf.positions[i].status = "settled"
        /\ DOMAIN rp.pending_confirmations = {}
        /\ \A r \in DOMAIN rp.pending : rp.pending[r] = << >>
        /\ \A k \in 1..Len(onBetLog) :
              onBetLog[k].accepted => onBetLog[k].bet_id \in DOMAIN pf.positions

\* A completed simulation run in which one request was rejected and the
\* other one accepted, recorded and settled as a losing bet.
C26_Witness ==
    /\ pc = "done"
    /\ rp.kind = "sim"
    /\ clockKind = "sim"
    /\ \E i \in DOMAIN pf.positions :
          pf.positions[i].status = "settled" /\ pf.positions[i].payout = 0
    /\ \E k \in 1..Len(onBetLog) : ~onBetLog[k].accepted

(* -------------------- requests at equal timestamps --------------------- *)

\* C27: a bet request is validated only when on_bet has returned for every
\* request validated before it, and no request still queued at the same
\* timestamp was submitted earlier (has a lower insertion number); the
\* confirmations are passed to on_bet in the order of their requests.
C27_SubmissionOrder ==
    /\ [](\A k \in 1..Len(onBetLog) :
            /\ k <= Len(reqLog)
            /\ onBetLog[k].at = reqLog[k].at
            /\ onBetLog[k].race_id = reqLog[k].race_id
            /\ onBetLog[k].stake = reqLog[k].stake)
    /\ [][reqLog' # reqLog =>
            /\ pc = "idle"
            /\ Len(onBetLog) = Len(reqLog)
            /\ \A q \in eng.queue :
                  (q.ev.type = "request" /\ q.when = Top.when) => q.order >= Top.order]_vars

\* Two requests with the same placed_at and the same stake were validated
\* and answered in turn: the first was accepted and took the cash the second
\* one needed.
C27_Witness ==
    /\ Len(reqLog) = 2
    /\ Len(onBetLog) = 2
    /\ reqLog[1].at = reqLog[2].at
    /\ reqLog[1].stake = reqLog[2].stake
    /\ onBetLog[1].accepted
    /\ ~onBetLog[2].accepted

(* ----------------------- the payout calculation ------------------------ *)

\* Most payoff records of one race in the payout calculations.
MaxPayoffs == 2

\* Bet-type labels: the canonical names, Japanese labels (in romaji), other
\* letter cases and a label that is in no alias set.
PayoutLabels ==
    {"win", "WIN", "tansho", "place", "Place", "bracket_quinella", "quinella",
     "exacta", "umatan", "quinella_place", "Wide", "waido", "trifecta_box",
     "trifecta_exact", "sanrentan", "other", "Other"}

PayoutCombinations ==
    {<< >>, <<"H1">>, <<"H1", "H2">>, <<"H2", "H1">>}

PayoutStakes == {2, 4}

\* The odds of the i-th payoff record of the race: 3/2, 2, 5/2, ...
PayoffOdds(i) == [num |-> i + 2, den |-> 2]

\* A position and the payoff records of its race, no engine.
InitPayout ==
    /\ pc = "payout"
    /\ cur = EvBase
    /\ schedIdx = 0
    /\ clockKind = "sim"
    /\ tickInterval = TickInterval
    /\ firstRun = NoFirstRun
    /\ dataRepo = SimDataRepo
    /\ \E t \in PayoutLabels, c \in PayoutCombinations, st \in PayoutStakes :
          payCall = [NoPayCall EXCEPT !.position =
                        BetPosition(FirstBetId, "R1", t, c, st, 0)]
    /\ wall = 0
    /\ simNow = NoTime
    /\ raceDate \in {[r \in Races |-> 1]}
    /\ payoffDelay = 0
    /\ races = << >>
    /\ eng = EngineInit
    /\ rp = RepoCreate("sim")
    /\ \E b \in Bankrolls : pf = PortfolioCreate(b)
    /\ error = ""
    /\ callsLeft = 0
    /\ prevPop = NoTime
    /\ lastPop = NoTime
    /\ delivered = {}
    /\ dataLog = << >>
    /\ resultsEnq = [r \in RaceIds |-> 0]
    /\ resultsDel = [r \in RaceIds |-> 0]
    /\ reqLog = << >>
    /\ onBetLog = << >>
    /\ openReq = NoTime
    /\ tickBetween = FALSE
    /\ lastConf = EvBase
    /\ calls = 0
    /\ qlog = << >>
    /\ qpops = << >>
    /\ fired = << >>

payoutFrame ==
    << pc, cur, schedIdx, clockKind, wall, simNow, raceDate, payoffDelay, races,
       eng, rp, pf, error, callsLeft, histVars, aloneVars, tickInterval, firstRun,
       dataRepo >>

\* One more payoff record of the position's race in the data repository.
AddPayoff(bet_type, combination) ==
    /\ pc = "payout"
    /\ ~payCall.done
    /\ Len(payCall.payoffs) < MaxPayoffs
    /\ payCall' = [payCall EXCEPT !.payoffs =
                      Append(@, [race_id |-> "R1", bet_type |-> bet_type,
                                 combination |-> combination,
                                 num |-> PayoffOdds(Len(@) + 1).num,
                                 den |-> PayoffOdds(Len(@) + 1).den])]
    /\ UNCHANGED payoutFrame

\* _calculate_payout(position, payoffs)
CallCalculatePayout ==
    /\ pc = "payout"
    /\ ~payCall.done
    /\ payCall' = [payCall EXCEPT !.payout = calculate_payout(payCall.position, payCall.payoffs),
                                  !.done = TRUE]
    /\ UNCHANGED payoutFrame

NextPayout ==
    \/ \E t \in PayoutLabels, c \in PayoutCombinations : AddPayoff(t, c)
    \/ CallCalculatePayout

SpecPayout == InitPayout /\ [][NextPayout]_vars

\* The alias table as stated: the canonical type of a label, whatever its
\* letter case; a label that is in no alias set stands for itself.
StatedType(label) ==
    CASE label \in {"win", "WIN", "tansho"} -> "win"
      [] label \in {"place", "Place"} -> "place"
      [] label \in {"exacta", "umatan"} -> "exacta"
      [] label \in {"quinella_place", "Wide", "waido"} -> "quinella_place"
      [] label \in {"trifecta_exact", "sanrentan"} -> "trifecta_exact"
      [] label \in {"other", "Other"} -> "other"
      [] OTHER -> label

\* The matching rules as stated.
StatedMatch(type, bet, result) ==
    CASE type \in {"exacta", "trifecta_exact"} -> bet = result
      [] type = "win" -> bet # << >> /\ result # << >> /\ Head(bet) = Head(result)
      [] type = "place" -> Range(bet) \subseteq Range(result)
      [] OTHER -> Range(bet) = Range(result)

\* The payoff records that match the position, by index.
StatedMatches(position, payoffs) ==
    {i \in 1..Len(payoffs) :
        /\ StatedType(payoffs[i].bet_type) = StatedType(position.bet_type)
        /\ StatedMatch(StatedType(position.bet_type), position.combination,
                       payoffs[i].combination)}

\* stake x odds of the first matching payoff record, else 0.
StatedPayout(position, payoffs) ==
    LET m == StatedMatches(position, payoffs)
    IN  IF m = {} THEN 0
        ELSE (position.stake * payoffs[SetMin(m)].num) \div payoffs[SetMin(m)].den

\* C28: the payout of a position is stake x odds of the first payoff of the
\* same canonical bet type whose combination matches, else 0: tuple equality
\* for exacta and trifecta_exact, first runner for win, containment for
\* place, set equality for every other type.
C28_PayoutRule ==
    payCall.done => payCall.payout = StatedPayout(payCall.position, payCall.payoffs)

\* A place bet was paid from the second payoff record, whose combination
\* holds more runners than the bet; the first record did not match.
C28_Witness ==
    /\ payCall.done
    /\ StatedType(payCall.position.bet_type) = "place"
    /\ Len(payCall.payoffs) = 2
    /\ StatedMatches(payCall.position, payCall.payoffs) = {2}
    /\ Len(payCall.payoffs[2].combination) > Len(payCall.position.combination)
    /\ payCall.payout = (payCall.position.stake * PayoffOdds(2).num) \div PayoffOdds(2).den
    /\ payCall.payout > 0

\* The labels that stand for the same canonical type as a label.
StatedAliases(label) == {a \in PayoutLabels : StatedType(a) = StatedType(label)}

\* C29: the payout is the same when the position's bet_type, or the bet_type
\* of any payoff record, is replaced by any alias of the same canonical
\* type (English or Japanese label, any letter case), and a payoff record
\* whose label is of another canonical type pays nothing.
C29_AliasInvariance ==
    payCall.done =>
        /\ \A a \in StatedAliases(payCall.position.bet_type) :
              calculate_payout([payCall.position EXCEPT !.bet_type = a], payCall.payoffs)
                  = payCall.payout
        /\ \A i \in 1..Len(payCall.payoffs) :
              \A a \in StatedAliases(payCall.payoffs[i].bet_type) :
                  calculate_payout(payCall.position,
                                   [payCall.payoffs EXCEPT ![i].bet_type = a])
                      = payCall.payout
        /\ \A i \in 1..Len(payCall.payoffs) :
              StatedType(payCall.payoffs[i].bet_type) # StatedType(payCall.position.bet_type)
                  => calculate_payout(payCall.position, <<payCall.payoffs[i]>>) = 0

\* A bet under the Japanese label was paid from a record under the English
\* label in capitals, after a record of another type with the same runners.
C29_Witness ==
    /\ payCall.done
    /\ payCall.position.bet_type = "tansho"
    /\ Len(payCall.payoffs) = 2
    /\ payCall.payoffs[1].bet_type = "Place"
    /\ payCall.payoffs[1].combination = payCall.position.combination
    /\ payCall.payoffs[2].bet_type = "WIN"
    /\ payCall.payout > 0

(* -------------------- the naive favourite strategy --------------------- *)

\* NaiveFavoriteStrategy.stake
NaiveStake == 100

\* Bankrolls of the naive runs: ten stakes, one stake, half a stake.
NaiveBankrolls == {1000, 100, 50}

\* The runners of the races with their win odds num/den (num = 0: the runner
\* has no win odds).
HorseOdds ==
    [r \in RaceIds |->
        IF r = "R1"
        THEN << [horse_id |-> "H1", num |-> 3, den |-> 2],
                [horse_id |-> "H2", num |-> 4, den |-> 1] >>
        ELSE << [horse_id |-> "H1", num |-> 0, den |-> 1],
                [horse_id |-> "H2", num |-> 2, den |-> 1] >>]

\* NaiveFavoriteStrategy._find_favourite: the first runner with the lowest
\* win odds, "" when no runner has win odds.
find_favourite(horses) ==
    LET priced == {i \in 1..Len(horses) : horses[i].num > 0}
        best == CHOOSE i \in priced : \A j \in priced \ {i} :
                    \/ horses[i].num * horses[j].den < horses[j].num * horses[i].den
                    \/ (horses[i].num * horses[j].den = horses[j].num * horses[i].den /\ i < j)
    IN  IF priced = {} THEN "" ELSE horses[best].horse_id

\* Catalogues of the naive runs: race R1 alone, or the two races.
NaiveRaceDates == [{"R1"} -> 1..MaxDate] \cup RaceDates

\* A simulation engine over either clock, to be run with the naive strategy.
InitNaive ==
    /\ pc = "ctor"
    /\ cur = EvBase
    /\ schedIdx = 0
    /\ clockKind \in {"sim", "real"}
    /\ tickInterval = TickInterval
    /\ firstRun = NoFirstRun
    /\ dataRepo = SimDataRepo
    /\ payCall = NoPayCall
    /\ wall \in WallStarts(clockKind)
    /\ simNow = NoTime
    /\ raceDate \in NaiveRaceDates
    /\ payoffDelay \in PayoffDelays
    /\ races = << >>
    /\ eng = EngineInit
    /\ rp = RepoCreate("sim")
    /\ \E b \in NaiveBankrolls : pf = PortfolioCreate(b)
    /\ error = ""
    /\ callsLeft = 0
    /\ prevPop = NoTime
    /\ lastPop = NoTime
    /\ delivered = {}
    /\ dataLog = << >>
    /\ resultsEnq = [r \in RaceIds |-> 0]
    /\ resultsDel = [r \in RaceIds |-> 0]
    /\ reqLog = << >>
    /\ onBetLog = << >>
    /\ openReq = NoTime
    /\ tickBetween = FALSE
    /\ lastConf = EvBase
    /\ calls = 0
    /\ qlog = << >>
    /\ qpops = << >>
    /\ fired = << >>

\* NaiveFavoriteStrategy.on_data for a race DataEvent with a favourite: the
\* whole hook, place_bet(race_id, [favourite], stake, "win") and the return.
NaiveOnData ==
    /\ pc = "on_data"
    /\ cur.kind = "race"
    /\ find_favourite(HorseOdds[cur.race_id]) # ""
    /\ eng' = Enqueue(eng, BetRequestEvent(cur.race_id, "win",
                                           <<find_favourite(HorseOdds[cur.race_id])>>,
                                           NaiveStake,
                                           ClockNow(clockKind, simNow, wall)))
    /\ pc' = "idle"
    /\ UNCHANGED << cur, schedIdx, wall, simNow, races, rp, pf, error, callsLeft >>
    /\ UNCHANGED << dataVars, histVars, aloneVars >>

NextNaive ==
    \/ \E w \in WallReads : Run(w)
    \/ ReturnOnStart
    \/ PopTime
    \/ ReturnOnTime
    \/ \E w \in WallReads : DueDone(w)
    \/ PopData
    \/ NaiveOnData
    \/ (cur.kind = "race" => find_favourite(HorseOdds[cur.race_id]) = "") /\ ReturnOnData
    \/ HandleBetRequest
    \/ PopConfirmation
    \/ PopResult
    \/ ReturnHook
    \/ Finish

SpecNaive == InitNaive /\ [][NextNaive]_vars

\* Scenario S1: the run with race R1 alone and bankroll 1000 is over.
ScenarioS1 ==
    /\ pc = "done"
    /\ DOMAIN raceDate = {"R1"}
    /\ pf.initial_bankroll = 1000

\* C30: in scenario S1 the run produces exactly one confirmation, accepted,
\* for 100 on H1 to win, exactly one position, settled with payout 150, and
\* final cash 1050.
C30_ScenarioS1 ==
    ScenarioS1 =>
        /\ Len(onBetLog) = 1
        /\ onBetLog[1].accepted
        /\ onBetLog[1].combination = <<"H1">>
        /\ onBetLog[1].stake = 100
        /\ Len(pf.positions) = 1
        /\ pf.positions[1].status = "settled"
        /\ pf.positions[1].payout = 150
        /\ pf.cash = 1050

\* Scenario S1 under the simulated clock has run to its end, the payoff
\* delivered and the result passed to on_result.
C30_Witness ==
    /\ ScenarioS1
    /\ clockKind = "sim"
    /\ delivered = {"R1"}
    /\ resultsDel["R1"] = 1
    /\ pf.cash = 1050

(* ------------------------ the empty catalogue -------------------------- *)

\* An engine of either clock over a data repository without races; the
\* strategy registers schedules before the run or in on_start.
InitEmpty ==
    /\ pc = "ctor"
    /\ cur = EvBase
    /\ schedIdx = 0
    /\ clockKind \in {"sim", "real"}
    /\ tickInterval \in TickIntervals
    /\ firstRun = NoFirstRun
    /\ dataRepo = SimDataRepo
    /\ payCall = NoPayCall
    /\ wall \in WallStarts(clockKind)
    /\ simNow = NoTime
    /\ raceDate = << >>
    /\ payoffDelay \in PayoffDelays
    /\ races = << >>
    /\ eng = EngineInit
    /\ rp = RepoCreate("sim")
    /\ \E b \in Bankrolls : pf = PortfolioCreate(b)
    /\ error = ""
    /\ callsLeft = MaxCalls
    /\ prevPop = NoTime
    /\ lastPop = NoTime
    /\ delivered = {}
    /\ dataLog = << >>
    /\ resultsEnq = [r \in RaceIds |-> 0]
    /\ resultsDel = [r \in RaceIds |-> 0]
    /\ reqLog = << >>
    /\ onBetLog = << >>
    /\ openReq = NoTime
    /\ tickBetween = FALSE
    /\ lastConf = EvBase
    /\ calls = 0
    /\ qlog = << >>
    /\ qpops = << >>
    /\ fired = << >>

NextEmpty ==
    \/ \E e \in SchedEntries : PreSchedule(e)
    \/ \E w \in WallReads : Run(w)
    \/ \E e \in SchedEntries : pc = "on_start" /\ StratSchedule(e)
    \/ ReturnOnStart
    \/ PopTime
    \/ ReturnOnTime
    \/ DueInvoke
    \/ ReturnCallback
    \/ DueSkip
    \/ \E w \in WallReads : DueDone(w)
    \/ Finish

\* run() executes its steps one after the other: a step that can be taken
\* is taken.
SpecEmpty == InitEmpty /\ [][NextEmpty]_vars /\ WF_vars(NextEmpty)

\* C31: with an empty race set the run completes without error; from the
\* seeding on the timeline end is the start time, which is the time of the
\* initial tick and of every callback invoked; no DataEvent is delivered and
\* the initial tick is the only event ever enqueued.
C31_EmptyRunCompletes ==
    /\ <>(pc = "done" /\ eng.queue = {} /\ error = "")
    /\ [](/\ pc # "failed"
          /\ dataLog = << >>
          /\ Pumping =>
                /\ eng.timeline_end = (IF clockKind = "sim" THEN simNow
                                       ELSE IF lastPop = NoTime THEN wall ELSE lastPop)
                /\ eng.counter = 0
                /\ \A q \in eng.queue : q.ev.type = "time" /\ q.when = eng.timeline_end
                /\ \A i \in 1..Len(fired) : fired[i].at = eng.timeline_end
          /\ pc \notin {"ctor", "on_start"} => eng.front_counter = -2
          /\ pc = "done" => prevPop = NoTime /\ lastPop # NoTime)

\* An empty run has ended after its only tick, at which the one schedule
\* registered was invoked.
C31_Witness ==
    /\ pc = "done"
    /\ raceDate = << >>
    /\ Len(eng.schedules) = 1
    /\ Len(fired) = 1
    /\ lastPop # NoTime
    /\ callsLeft = MaxCalls - 1

(* --------------------- the simulated clock in a run -------------------- *)

\* The requests a step adds to the queue.
NewRequests == {q \in eng'.queue \ eng.queue : q.ev.type = "request"}

\* C32: under the simulated clock the clock starts at the earliest race's
\* scheduled_at; when the run has ended clock.now() is the timestamp of the
\* last event handled and no race is scheduled later; and a bet submitted
\* from the handler of a race DataEvent has placed_at equal to the time at
\* which that event was delivered.
C32_ClockFollowsEvents ==
    /\ [](clockKind = "sim" =>
            /\ pc = "on_start" => simNow = RunStart
            /\ pc = "done" =>
                  /\ simNow = lastPop
                  /\ \A r \in DOMAIN raceDate : simNow >= raceDate[r])
    /\ [][(clockKind = "sim" /\ pc = "on_data" /\ cur.kind = "race") =>
             \A q \in NewRequests : q.when = cur.at /\ cur.at = simNow]_vars

(* ------------------ schedules registered during the run ---------------- *)

\* The scheduling runs again, with a strategy that registers schedules in
\* any hook it is given: on_start, on_time, on_data or a schedule callback.
NextMidRun ==
    \/ \E e \in SchedEntries : PreSchedule(e)
    \/ \E w \in WallReads : Run(w)
    \/ \E e \in SchedEntries : StratSchedule(e)
    \/ ReturnOnStart
    \/ PopTime
    \/ ReturnOnTime
    \/ DueInvoke
    \/ ReturnCallback
    \/ DueSkip
    \/ \E w \in WallReads : DueDone(w)
    \/ PopData
    \/ ReturnOnData
    \/ Finish

SpecMidRun == InitSched /\ [][NextMidRun]_vars

\* The ticks a step adds to the queue.
NewTicks == {q \in eng'.queue \ eng.queue : q.ev.type = "time"}

\* The reasons to wake up later than now: queued events other than ticks
\* and activations of schedules, strictly after the clock reading.
WakeTimes ==
    {q.when : q \in {x \in eng.queue : x.ev.type # "time" /\ x.when > simNow}}
    \cup {eng.schedules[i].next_due : i \in
             {k \in 1..Len(eng.schedules) : eng.schedules[k].next_due > simNow}}

\* The end of the TimeEvent branch under the simulated clock.
AfterTick == clockKind = "sim" /\ pc = "due" /\ pc' = "idle"

\* The ticks in the queue.
QueuedTicks == {q \in eng.queue : q.ev.type = "time"}

\* What the end of the TimeEvent branch enqueues: nothing, or one tick
\* at the earliest wake-up time.
TickAtEarliestWake ==
    /\ Cardinality(NewTicks) <= 1
    /\ \A q \in NewTicks :
          /\ WakeTimes # {}
          /\ q.when = SetMin(WakeTimes)
          /\ q.when > simNow

\* C33 as stated: after a tick is consumed under the simulated clock a next
\* tick is enqueued only if an event other than a tick is queued later than
\* now or a schedule is due later than now; its time is the least of these
\* times, hence later than now; and none is enqueued when a tick is already
\* scheduled, that is queued, at that time or earlier.
C33_NextTickPolicy ==
    [][AfterTick =>
          /\ TickAtEarliestWake
          /\ (WakeTimes # {} /\ \E t \in QueuedTicks : t.when <= SetMin(WakeTimes))
                => NewTicks = {}]_vars

\* C33 amended: as above, but what holds a new tick back is the next tick
\* time the engine has recorded, which every consumed tick clears and which
\* only a registration during that tick's hooks sets again; a tick that is
\* still queued from before does not.
C33_NextTickRecorded ==
    [][AfterTick =>
          /\ TickAtEarliestWake
          /\ (WakeTimes # {} /\ eng.next_tick_time # NoTime
                /\ eng.next_tick_time <= SetMin(WakeTimes)) => NewTicks = {}
          /\ (WakeTimes # {} /\ eng.next_tick_time = NoTime
                /\ SetMin(WakeTimes) <= eng.timeline_end) => Cardinality(NewTicks) = 1]_vars

\* A tick was consumed and a second tick was enqueued at the time of a tick
\* that was already waiting.
C33_Witness ==
    /\ clockKind = "sim"
    /\ pc = "idle"
    /\ lastPop # NoTime
    /\ eng.next_tick_time # NoTime
    /\ Cardinality({q \in QueuedTicks : q.when = eng.next_tick_time}) = 2

(* ----------------------- bet, confirmation, result --------------------- *)

\* The engine run on the real clock with a tick interval of two slots, so
\* that the wall clock is read at instants between two ticks.
InitRealBets ==
    /\ pc = "ctor"
    /\ cur = EvBase
    /\ schedIdx = 0
    /\ clockKind = "real"
    /\ rp = RepoCreate("sim")
    /\ tickInterval = 2 * TickInterval
    /\ firstRun = NoFirstRun
    /\ dataRepo = SimDataRepo
    /\ payCall = NoPayCall
    /\ wall \in WallStarts(clockKind)
    /\ simNow = NoTime
    /\ raceDate \in RaceDates
    /\ payoffDelay \in PayoffDelays
    /\ races = << >>
    /\ eng = EngineInit
    /\ \E b \in Bankrolls : pf = PortfolioCreate(b)
    /\ error = ""
    /\ callsLeft = MaxCalls
    /\ prevPop = NoTime
    /\ lastPop = NoTime
    /\ delivered = {}
    /\ dataLog = << >>
    /\ resultsEnq = [r \in RaceIds |-> 0]
    /\ resultsDel = [r \in RaceIds |-> 0]
    /\ reqLog = << >>
    /\ onBetLog = << >>
    /\ openReq = NoTime
    /\ tickBetween = FALSE
    /\ lastConf = EvBase
    /\ calls = 0
    /\ qlog = << >>
    /\ qpops = << >>
    /\ fired = << >>

SpecRealBets == InitRealBets /\ [][Next]_vars

\* The ResultEvents a step adds to the queue.
NewResults == {q \in eng'.queue \ eng.queue : q.ev.type = "result"}

\* on_bet has been called with the accepted confirmation of bet b, stamped
\* no later than t.
OnBetCalled(log, b, t) ==
    \E i \in 1..Len(log) : log[i].bet_id = b /\ log[i].accepted /\ log[i].at <= t

\* C34: the order bet, confirmation, result is kept for every accepted bet:
\* a settlement enqueues its ResultEvent in a handler that has called, or
\* ends by calling, on_bet with the confirmation of every bet it includes,
\* and that ResultEvent's timestamp is not earlier than the confirmation's;
\* when on_result is called, on_bet has been called for every settled
\* position of the race.
C34_BetConfirmationResult ==
    [][/\ \A q \in NewResults : \A b \in NewlySettled :
             pf'.positions[b].race_id = q.ev.race_id => OnBetCalled(onBetLog', b, q.when)
       /\ pc' = "on_result" /\ pc = "idle" =>
             \A b \in settled_positions(pf) :
                pf.positions[b].race_id = cur'.race_id => OnBetCalled(onBetLog, b, cur'.at)]_vars

(* --------------------------- duplicate ticks --------------------------- *)

\* How many activations the entry e has at instant t: one for each race it
\* is relative to, one for a time of day or a cron match.
ActivationsAt(e, t) ==
    IF e.mode = "relative"
    THEN Cardinality({r \in DOMAIN raceDate : raceDate[r] + e.offset = t})
    ELSE 1

\* How often entry i was invoked for the activation instant t.
InvokedFor(i, t) ==
    Cardinality({k \in 1..Len(fired) : fired[k].entry = i /\ fired[k].due = t})

\* C35: a tick in the queue is never cancelled: it stays queued until the
\* loop pops it and calls on_time, also when a schedule registered mid-run
\* enqueues an earlier tick, and a run ends with no tick left; and however
\* many ticks carry the same timestamp, each entry's callback is invoked at
\* most once for each of its activations.
C35_LaterTickStillFires ==
    /\ [][\A t \in QueuedTicks :
             \/ t \in eng'.queue
             \/ pc = "idle" /\ pc' = "on_time" /\ t = Top /\ cur'.at = t.when]_vars
    /\ [](pc = "done" => eng.queue = {})
    /\ [](\A i \in 1..Len(eng.schedules) : \A k \in 1..Len(fired) :
             fired[k].entry = i =>
                InvokedFor(i, fired[k].due) <= ActivationsAt(eng.schedules[i], fired[k].due))

\* A schedule that fires at every slot was registered mid-run, a tick for it
\* was enqueued ahead of a later tick, and the later instant then got two
\* ticks: the first invoked the callback, the second has invoked nothing.
C35_Witness ==
    /\ pc = "due"
    /\ schedIdx > Len(eng.schedules)
    /\ prevPop = lastPop
    /\ Len(eng.schedules) = 1
    /\ eng.schedules[1].mode = "cron"
    /\ eng.schedules[1].cron = NoTime
    /\ Len(fired) > 1
    /\ fired[1].due > RunStart
    /\ fired[Len(fired)].at = lastPop
    /\ fired[Len(fired)].due = lastPop

(* ---------------------------- late callbacks --------------------------- *)

\* C36: under the simulated clock no schedule callback is invoked late:
\* whenever a callback runs, the clock reads the next_due that prepare or
\* advance computed for its entry, also for an entry registered mid-run
\* whose first activation is the current time.
C36_NeverLate ==
    clockKind = "sim" => \A k \in 1..Len(fired) : fired[k].at = fired[k].due

(* ------------------------- one pending bet ----------------------------- *)

\* The bets the repository holds between place_bet and confirm_bet.
PendingIds == DOMAIN rp.pending_confirmations

\* C37: in an engine run the confirmation of a bet request is the very next
\* event popped after the request; so the betting repository holds at most
\* one pending bet when a handler has returned (the one whose accepted
\* confirmation is at the head of the queue) and none while on_start,
\* on_time, on_data, on_bet, on_result or a schedule callback is executing.
C37_OnePendingBet ==
    /\ [][reqLog' # reqLog =>
             /\ pc' = "idle"
             /\ PopMin(eng'.queue).ev = lastConf'
             /\ lastConf'.type = "confirmation"
             /\ lastConf'.bet_id = rp.counter]_vars
    /\ [](openReq # NoTime => pc = "idle" /\ eng.queue # {} /\ Top.ev = lastConf)
    /\ [](/\ Cardinality(PendingIds) <= 1
          /\ pc \in Hooks => PendingIds = {}
          /\ PendingIds # {} =>
                /\ openReq # NoTime
                /\ lastConf.accepted
                /\ PendingIds = {lastConf.bet_id})

\* An accepted request has been handled in a run that placed two bets: its
\* bet is pending and its confirmation is the next event, ahead of a
\* DataEvent with the same timestamp that was queued before the request.
C37_Witness ==
    /\ pc = "idle"
    /\ PendingIds = {FirstBetId + 1}
    /\ Top.ev.type = "confirmation"
    /\ Top.ev.bet_id = FirstBetId + 1
    /\ \E q \in eng.queue : q.ev.type = "data" /\ q.when = Top.when
    /\ Len(onBetLog) = 1

(* -------------------- pending stakes against cash ---------------------- *)

\* C38: whatever the order of place_bet, confirm_bet and settle_race calls
\* on a betting repository, the stakes of its pending bets never exceed the
\* portfolio's cash together, and confirm_bet for a pending bet, one that
\* place_bet accepted, succeeds: it never fails with InsufficientCash.
C38_PendingWithinCash ==
    /\ [](PendingStakes(rp) <= pf.cash)
    /\ [][(pc' = "confirm_bet" /\ cur'.bet_id \in PendingIds) =>
             /\ error' = ""
             /\ pf'.cash = pf.cash - rp.pending_confirmations[cur'.bet_id].stake
             /\ PendingIds' = PendingIds \ {cur'.bet_id}]_vars

\* Two bets were pending whose stakes used up all the cash; one of them has
\* just been confirmed, and the other's stake is all the cash that is left.
C38_Witness ==
    /\ pc = "confirm_bet"
    /\ error = ""
    /\ Cardinality(PendingIds) = 1
    /\ PendingStakes(rp) = pf.cash
    /\ pf.cash > 0

(* --------------------------- distinct bet ids -------------------------- *)

\* The bet ids the repository has issued so far.
IssuedIds == FirstBetId..(rp.counter - 1)

\* C39: every confirmation a betting repository issues, accepted or
\* rejected, carries a bet id that none of its earlier confirmations
\* carried; so a successful confirm_bet adds a position under an id the
\* portfolio did not hold, leaves the other positions as they are, and
\* takes that position's stake from cash once.
C39_DistinctBetIds ==
    /\ [](/\ PendingIds \subseteq IssuedIds
          /\ DOMAIN pf.positions \subseteq IssuedIds
          /\ PendingIds \cap DOMAIN pf.positions = {}
          /\ lastConf.type = "confirmation" => lastConf.bet_id \in IssuedIds)
    /\ [][/\ IssuedIds \subseteq IssuedIds'
          /\ pc' = "place_bet" =>
                /\ lastConf'.bet_id \notin IssuedIds
                /\ IssuedIds' = IssuedIds \cup {lastConf'.bet_id}
          /\ (pc' = "confirm_bet" /\ error' = "") =>
                /\ cur'.bet_id \notin DOMAIN pf.positions
                /\ DOMAIN pf'.positions = DOMAIN pf.positions \cup {cur'.bet_id}
                /\ \A b \in DOMAIN pf.positions : pf'.positions[b] = pf.positions[b]
                /\ pf'.cash = pf.cash - pf'.positions[cur'.bet_id].stake
          /\ (pc' = "confirm_bet" /\ error' # "") => pf' = pf]_vars

\* Three confirmations were issued, the second one a rejection; the bets of
\* the first and the third have both been confirmed as positions.
C39_Witness ==
    /\ pc = "confirm_bet"
    /\ error = ""
    /\ cur.bet_id = FirstBetId + 2
    /\ DOMAIN pf.positions = {FirstBetId, FirstBetId + 2}
    /\ IssuedIds = FirstBetId..(FirstBetId + 2)
    /\ PendingIds = {}

(* ------------------------ the same engine, twice ----------------------- *)

\* The run is over and run() is called again on the same engine with the
\* same strategy and data: the first run's entries and invocations are put
\* on record. The engine keeps what run() left behind; its _schedules are
\* still the entries registered during the first run.
RunAgain ==
    /\ pc = "done"
    /\ ~firstRun.recorded
    /\ Len(eng.schedules) > 0
    /\ firstRun' = [entries |-> [i \in 1..Len(eng.schedules) |-> reset_for_run(eng.schedules[i])],
                    fired |-> fired, recorded |-> TRUE]
    /\ pc' = "ctor"
    /\ cur' = EvBase
    /\ schedIdx' = 0
    /\ callsLeft' = Len(eng.schedules)
    /\ fired' = << >>
    /\ prevPop' = NoTime
    /\ lastPop' = NoTime
    /\ delivered' = {}
    /\ dataLog' = << >>
    /\ UNCHANGED << clockKind, raceDate, payoffDelay, tickInterval, dataRepo, payCall, wall, rp, pf, error >>
    /\ UNCHANGED << eng, simNow, races >>
    /\ UNCHANGED << resultsEnq, resultsDel, reqLog, onBetLog, openReq, tickBetween, lastConf >>
    /\ UNCHANGED aloneVars

\* A strategy that registers its schedules in on_start, run twice on one
\* engine: on_start of the second run makes the same schedule calls again.
NextAgain ==
    \/ \E w \in WallReads : Run(w)
    \/ \E e \in SchedEntries : ~firstRun.recorded /\ pc = "on_start" /\ StratSchedule(e)
    \/ firstRun.recorded /\ pc = "on_start" /\ callsLeft > 0 /\ StratSchedule(firstRun.entries[Len(firstRun.entries) - callsLeft + 1])
    \/ (firstRun.recorded => callsLeft = 0) /\ ReturnOnStart
    \/ PopTime
    \/ ReturnOnTime
    \/ DueInvoke
    \/ ReturnCallback
    \/ DueSkip
    \/ \E w \in WallReads : DueDone(w)
    \/ PopData
    \/ ReturnOnData
    \/ Finish
    \/ RunAgain

SpecAgain == InitSched /\ [][NextAgain]_vars

\* The schedule call of on_start that entry i of the table comes from.
CallOf(i) == ((i - 1) % Len(firstRun.entries)) + 1

\* How often the callback of schedule call k was invoked at instant t.
InvokedAt(log, k, t) ==
    Cardinality({j \in 1..Len(log) : CallOf(log[j].entry) = k /\ log[j].at = t})

\* C40: run() starts from an empty queue, fresh counters, a reset clock and
\* reset entries, so that when the same engine is run twice over the same
\* data with a strategy that registers its schedules in on_start, every
\* callback is invoked in the second run at the instants of the first run
\* and as often at each instant.
C40_SecondRunAlike ==
    /\ [][(pc = "ctor" /\ pc' = "on_start") =>
             /\ eng'.queue = {}
             /\ eng'.counter = 0
             /\ eng'.front_counter = -1
             /\ eng'.next_tick_time = NoTime
             /\ simNow' = RunStart]_vars
    /\ []((pc = "done" /\ firstRun.recorded) =>
             \A k \in 1..Len(firstRun.entries) :
                \A t \in {firstRun.fired[j].at : j \in 1..Len(firstRun.fired)}
                         \cup {fired[j].at : j \in 1..Len(fired)} :
                   InvokedAt(fired, k, t) = InvokedAt(firstRun.fired, k, t))

====
